---- MODULE Spec2Model ----
(***************************************************************************)
(* State-machine model of the merge engine of src/server.py: the mergers   *)
(* that combine two source databases (source 1 = file1, source 2 = file2)  *)
(* into the merged database.                                               *)
(*                                                                         *)
(* Conventions                                                             *)
(*  - A table is the set of its rows; a row is a record whose fields carry *)
(*    the column names of the SQL statements.                              *)
(*  - A source table is the sequence of rows in the order the SELECT       *)
(*    returns them.                                                        *)
(*  - SQL NULL and Python None are the value NULL.  Text values of the     *)
(*    nullable columns are encoded as small integers.                      *)
(*  - A Python dict is a function; d[k] = v is (k :> v) @@ d.              *)
(*  - The merged database starts with the schema only (merge_data removes  *)
(*    a previous file and calls create_merged_schema); the constraints of  *)
(*    that schema come from the uploaded file and are not part of the      *)
(*    program, so an INSERT succeeds unless a table the program creates    *)
(*    itself (a MergeMapping table) rejects it.                              *)
(*  - os.path.normpath leaves the two fixed source paths unchanged, so a   *)
(*    source path is the source number.                                    *)
(***************************************************************************)
EXTENDS Integers, Sequences, FiniteSets, TLC

NULL == -1

Sources == {1, 2}

\* ---------------------------------------------------------------- bounds
MaxLocRows == 2
MaxLocRuns == 2
MaxUMRows == 2
MaxNoteRows == 2
MaxNoteChoices == 2
MaxBmRows == 2
MaxBmChoices == 2
MaxTagRows == 1
MaxTagMapRows == 1
MaxTagChoices == 2

VARIABLES
    \* ---- merge_location_from_sources
    srcLocation,            \* source -> rows of its Location table
    Location,               \* merged Location table
    MergeMapping_Location,  \* transient table (SourceDb, OldID) -> NewID
    location_id_map,        \* dict built by the running invocation
    current_max_id,
    loc_pc,                 \* "idle" | "loop" | "done"
    loc_i,                  \* index of the next row of `locations`
    loc_run,                \* number of invocations started
    loc_first_map,          \* the mapping the first invocation returned
    loc_inserted            \* rows the running invocation inserted

VARIABLES
    \* ---- merge_usermark_from_sources
    srcUserMark,            \* source -> rows of its UserMark table
    UserMark,               \* merged UserMark table
    MergeMapping_UserMark,  \* transient table (SourceDb, OldUserMarkId) -> NewUserMarkId
    um_mapping,             \* dict `mapping`, the entries keyed by (source, old id)
    um_guid_mapping,        \* dict `mapping`, the entries keyed by GUID
    um_max_id,
    um_pc,                  \* "idle" | "loop" | "done"
    um_i,                   \* index of the next row of the two sources
    um_split,               \* conflict splits made: [db, old, guid, existing, new]
    uuid_n                  \* number of uuid.uuid4() values drawn so far

VARIABLES
    \* ---- merge_notes
    srcNote,                \* source -> rows fetch_notes returns
    Note,                   \* merged Note table
    note_mapping,           \* dict (source, old NoteId) -> new NoteId
    note_pc,                \* "idle" | "choices" | "auto2" | "done"
    note_nchoices,          \* entries of note_choices handled so far
    note_ignored,           \* keys named by the entries with choice = ignore
    note_named,             \* key -> number of entries, ignore apart, that name it
    note_both,              \* entries with choice = both handled: [file1, file2, edited]
    note_picked,            \* keys an entry was resolved to (its base row)
    note_unchosen           \* keys a file1/file2 entry names on the side not chosen

VARIABLES
    \* ---- merge_bookmarks, update_location_references
    srcBookmark,            \* source -> rows fetch_bookmarks returns
    Bookmark,               \* merged Bookmark table
    MergeMapping_Bookmark,  \* transient table (SourceDb, OldID) -> NewID
    bm_mapping,             \* dict (source, old BookmarkId) -> new BookmarkId
    bm_pc,                  \* "idle" | "choices" | "merged" | "update" | "done"
    bm_nchoices,            \* entries of bookmark_choices handled so far
    bm_both,                \* entries with choice = both naming a bookmark of each source
    bm_probed,              \* an insert moved past an occupied slot
    bm_picked,              \* keys an entry was resolved to (its base row)
    upd_i,                  \* index of the next pair of location_replacements
    upd_rows                \* rows fetched for the running pair, not yet handled

VARIABLES
    \* ---- merge_tags_and_tagmap, apply_selected_tags
    srcTag,                 \* source -> rows of its Tag table
    srcTagMap,              \* source -> rows of its TagMap table
    Tag,                    \* merged Tag table
    TagMap,                 \* merged TagMap table
    MergeMapping_Tag,       \* transient table (SourceDb, OldTagId) -> NewTagId
    MergeMapping_TagMap,    \* transient table (SourceDb, OldTagMapId) -> NewTagMapId
    tag_id_map,             \* dict (source, old TagId) -> new TagId
    tagmap_id_map,          \* dict (source, old TagMapId) -> new TagMapId
    item_id_map,            \* dict (source, old PlaylistItemId) -> new PlaylistItemId
    max_tag_id,
    max_tagmap_id,
    tag_pc,                 \* "idle" | "tags" | "tagmaps" | "merged" | "apply" | "done"
    tag_i,                  \* index of the next row of the running loop
    tag_nchoices,           \* entries of note_choices apply_selected_tags handled so far
    tag_applied,            \* the notes tags were applied to, in order: [db, note, tags]
    tag_run,                \* 1 or 2: the call of merge_tags_and_tagmap merge_data is at
    tag_saved,              \* the tables as the running call's transaction found them
    tag_raised              \* the second call of merge_tags_and_tagmap raised

VARIABLES
    \* ---- merge_playlists and the PlaylistItem clean-up of merge_data
    srcPlaylistItem,        \* source -> rows of its PlaylistItem table
    srcPlaylistItemLocationMap,         \* source -> rows of its PlaylistItemLocationMap
    srcPlaylistItemIndependentMediaMap, \* source -> rows of its PlaylistItemIndependentMediaMap
    PlaylistItem,           \* merged PlaylistItem table
    PlaylistItemLocationMap,            \* merged PlaylistItemLocationMap table
    PlaylistItemIndependentMediaMap,    \* merged PlaylistItemIndependentMediaMap table
    MergeMapping_PlaylistItem,          \* transient table (SourceDb, OldItemId) -> NewItemId
    independent_media_map,  \* dict (source, old IndependentMediaId) -> new id
    pl_item_id_map,         \* dict `mapping` of merge_playlist_items
    existing_items,         \* dict content key -> new PlaylistItemId
    pl_pc,                  \* position in merge_data / merge_playlists
    pl_i                    \* index of the next row of all_items

VARIABLES
    \* ---- merge_data as a whole, and the download endpoints
    md_src_tables,          \* source -> names of the tables of its userData.db
    md_highlights,          \* source -> UserMark rows read_notes_and_highlights returns
    md_tables,              \* names of the tables of merged_userData.db
    merge_in_progress,      \* the marker file uploads/merge_in_progress exists
    out_file,               \* uploads/debug_cleaned_before_copy.db
    md_pc,                  \* position of the running /merge request, "idle" if none
    md_run,                 \* number of /merge requests started
    md_ran,                 \* mergers that have written during the running request
    md_response,            \* response of the last /merge request, code 0 while it runs
    md_outcomes,            \* what the checks of the running request reported
    dl_pc,                  \* position of the running /download/<filename> request
    dl_last                 \* the last send_file of the output file

VARIABLES
    \* ---- merge_blockrange_from_two_sources
    srcBlockRange,          \* source -> rows of its BlockRange table
    BlockRange,             \* merged BlockRange table
    br_pc,                  \* "idle" | "loop" | "done"
    br_merged,              \* source rows merged: [db, old, new], the UserMarkIds
    br_usermark_guid_map,   \* dict usermark_guid_map read from the merged UserMark
    br_db,                  \* the source of the running iteration
    br_rows                 \* rows of that source still to visit

VARIABLES
    \* ---- PlaylistItemMarker: merge_other_tables, then merge_playlist_item_marker
    srcPlaylistItemMarker,  \* source -> rows of its PlaylistItemMarker table
    PlaylistItemMarker,     \* merged PlaylistItemMarker table
    MergeMapping_PlaylistItemMarker,
    marker_id_map,          \* dict (source, old PlaylistItemMarkerId) -> new id
    max_marker_id,          \* local of merge_playlist_item_marker
    mk_item_id_map,         \* item_id_map as merge_playlist_items returned it
    mk_unique,              \* the sources' table has UNIQUE (PlaylistItemId, StartTimeTicks)
    mk_pc,                  \* position in merge_data / merge_playlist_item_marker
    mk_db,                  \* source whose rows are looped over
    mk_i,                   \* index of the next row of markers
    mk_from                 \* history: merged row, the source row it came from, the writer

VARIABLES
    \* ---- merge_other_tables on one residual table (key column Id, columns A and B)
    srcOther,               \* source -> rows SELECT * returns
    Other,                  \* the merged table
    ot_pc,                  \* "idle" | "rows" | "done"
    ot_i,                   \* index of the next row of the two sources
    ot_run,                 \* calls of merge_other_tables begun
    ot_first                \* the merged table as the first call left it

locVars == <<srcLocation, Location, MergeMapping_Location, location_id_map,
             current_max_id, loc_pc, loc_i, loc_run, loc_first_map, loc_inserted>>

umVars == <<srcUserMark, UserMark, MergeMapping_UserMark, um_mapping, um_guid_mapping,
            um_max_id, um_pc, um_i, um_split, uuid_n>>

noteVars == <<srcNote, Note, note_mapping, note_pc, note_nchoices, note_ignored,
              note_named, note_both, note_picked, note_unchosen>>

bmVars == <<srcBookmark, Bookmark, MergeMapping_Bookmark, bm_mapping, bm_pc, bm_nchoices,
            bm_both, bm_probed, bm_picked, upd_i, upd_rows>>

tagVars == <<srcTag, srcTagMap, Tag, TagMap, MergeMapping_Tag, MergeMapping_TagMap,
             tag_id_map, tagmap_id_map, item_id_map, max_tag_id, max_tagmap_id, tag_pc, tag_i,
             tag_nchoices, tag_applied, tag_run, tag_saved, tag_raised>>

plVars == <<srcPlaylistItem, srcPlaylistItemLocationMap, srcPlaylistItemIndependentMediaMap,
            PlaylistItem, PlaylistItemLocationMap, PlaylistItemIndependentMediaMap,
            MergeMapping_PlaylistItem, independent_media_map, pl_item_id_map, existing_items,
            pl_pc, pl_i>>

\* the state of the steps of merge_data that follow the tag mergers
mdVars == <<md_src_tables, md_highlights, md_tables, merge_in_progress, out_file, md_pc, md_run, md_ran,
            md_response, md_outcomes, dl_pc, dl_last>>

brVars == <<srcBlockRange, BlockRange, br_pc, br_merged, br_usermark_guid_map, br_db,
           br_rows>>

otVars == <<srcOther, Other, ot_pc, ot_i, ot_run, ot_first>>

mkVars == <<srcPlaylistItemMarker, PlaylistItemMarker, MergeMapping_PlaylistItemMarker,
            marker_id_map, max_marker_id, mk_item_id_map, mk_unique, mk_pc, mk_db, mk_i,
            mk_from>>

laterVars == <<plVars, mdVars, brVars, otVars, mkVars>>

vars == <<locVars, umVars, noteVars, bmVars, tagVars, laterVars>>

\* what each merger leaves alone
notLoc == <<umVars, noteVars, bmVars, tagVars, laterVars>>

notUM == <<locVars, noteVars, bmVars, tagVars, laterVars>>

notNote == <<locVars, srcUserMark, UserMark, MergeMapping_UserMark, um_mapping,
             um_guid_mapping, um_max_id, um_pc, um_i, um_split, bmVars, tagVars, laterVars>>

notBm == <<locVars, umVars, noteVars, tagVars, laterVars>>

notTag == <<locVars, umVars, noteVars, bmVars, laterVars>>

notPl == <<locVars, umVars, noteVars, bmVars, tagVars, mdVars, brVars, otVars, mkVars>>

notMd == <<locVars, umVars, noteVars, bmVars, tagVars, plVars, brVars, otVars, mkVars>>

notBr == <<locVars, umVars, noteVars, bmVars, tagVars, plVars, mdVars, otVars, mkVars>>

notOt == <<locVars, umVars, noteVars, bmVars, tagVars, plVars, mdVars, brVars, mkVars>>

notMk == <<locVars, umVars, noteVars, bmVars, tagVars, plVars, mdVars, brVars, otVars>>

\* ------------------------------------------------------------ SQL helpers
\* `a IS b`: NULL-aware equality.
SqlIs(a, b) == a = b

\* `a = b`: never true when an operand is NULL.
SqlEq(a, b) == a # NULL /\ b # NULL /\ a = b

EmptyMap == [k \in {} |-> NULL]

MaxOf(S) == IF S = {} THEN 0 ELSE CHOOSE m \in S : \A x \in S : x <= m

MinOf(S) == CHOOSE m \in S : \A x \in S : m <= x

\* all sequences over S of length 0..n
SeqsUpTo(S, n) == UNION {[1..k -> S] : k \in 0..n}

\* ------------------------------------------------ mergers not yet called
\* The state of the UserMark merger before merge_data calls it.
IdleUserMark ==
    /\ srcUserMark = [db \in Sources |-> <<>>]
    /\ UserMark = {}
    /\ MergeMapping_UserMark = {}
    /\ um_mapping = EmptyMap
    /\ um_guid_mapping = EmptyMap
    /\ um_max_id = 0
    /\ um_pc = "idle"
    /\ um_i = 1
    /\ um_split = {}
    /\ uuid_n = 0

\* The state of the Note merger before merge_data calls it.
IdleNote ==
    /\ srcNote = [db \in Sources |-> <<>>]
    /\ Note = {}
    /\ note_mapping = EmptyMap
    /\ note_pc = "idle"
    /\ note_nchoices = 0
    /\ note_ignored = {}
    /\ note_named = EmptyMap
    /\ note_both = {}
    /\ note_picked = {}
    /\ note_unchosen = {}

\* The state of the Bookmark merger before merge_data calls it.
IdleBookmark ==
    /\ srcBookmark = [db \in Sources |-> <<>>]
    /\ Bookmark = {}
    /\ MergeMapping_Bookmark = {}
    /\ bm_mapping = EmptyMap
    /\ bm_pc = "idle"
    /\ bm_nchoices = 0
    /\ bm_both = {}
    /\ bm_probed = FALSE
    /\ bm_picked = {}
    /\ upd_i = 1
    /\ upd_rows = {}

\* The state of the Tag/TagMap merger before merge_data calls it.
IdleTag ==
    /\ srcTag = [db \in Sources |-> <<>>]
    /\ srcTagMap = [db \in Sources |-> <<>>]
    /\ Tag = {}
    /\ TagMap = {}
    /\ MergeMapping_Tag = {}
    /\ MergeMapping_TagMap = {}
    /\ tag_id_map = EmptyMap
    /\ tagmap_id_map = EmptyMap
    /\ item_id_map = EmptyMap
    /\ max_tag_id = 0
    /\ max_tagmap_id = 0
    /\ tag_pc = "idle"
    /\ tag_i = 1
    /\ tag_nchoices = 0
    /\ tag_applied = <<>>
    /\ tag_run = 1
    /\ tag_saved = [Tag |-> {}, TagMap |-> {}, MergeMapping_Tag |-> {},
                    MergeMapping_TagMap |-> {}]
    /\ tag_raised = FALSE

\* The state of the playlist tables before merge_data reaches them.
IdlePlaylist ==
    /\ srcPlaylistItem = [db \in Sources |-> <<>>]
    /\ srcPlaylistItemLocationMap = [db \in Sources |-> {}]
    /\ srcPlaylistItemIndependentMediaMap = [db \in Sources |-> {}]
    /\ PlaylistItem = {}
    /\ PlaylistItemLocationMap = {}
    /\ PlaylistItemIndependentMediaMap = {}
    /\ MergeMapping_PlaylistItem = {}
    /\ independent_media_map = EmptyMap
    /\ pl_item_id_map = EmptyMap
    /\ existing_items = EmptyMap
    /\ pl_pc = "idle"
    /\ pl_i = 1

\* No /merge request has been made: no marker, no merged database, no output.
IdleMergeData ==
    /\ md_src_tables = [db \in Sources |-> {}]
    /\ md_highlights = [db \in Sources |-> <<>>]
    /\ md_tables = {}
    /\ merge_in_progress = FALSE
    /\ out_file = [exists |-> FALSE, tables |-> {}, run |-> 0, whole |-> FALSE]
    /\ md_pc = "idle"
    /\ md_run = 0
    /\ md_ran = {}
    /\ md_response = [code |-> 0, error |-> "none"]
    /\ md_outcomes = [blockrange |-> "none", quick_check |-> "none", integrity |-> "none"]
    /\ dl_pc = "idle"
    /\ dl_last = [endpoint |-> "none", in_progress |-> FALSE, whole |-> TRUE, run |-> 0]

\* The state of the BlockRange merger before merge_data calls it.
IdleBlockRange ==
    /\ srcBlockRange = [db \in Sources |-> <<>>]
    /\ BlockRange = {}
    /\ br_pc = "idle"
    /\ br_merged = {}
    /\ br_usermark_guid_map = EmptyMap
    /\ br_db = 1
    /\ br_rows = {}

\* The residual table before merge_data calls merge_other_tables.
IdleOther ==
    /\ srcOther = [db \in Sources |-> <<>>]
    /\ Other = {}
    /\ ot_pc = "idle"
    /\ ot_i = 1
    /\ ot_run = 0
    /\ ot_first = {}

IdleMarker ==
    /\ srcPlaylistItemMarker = [db \in Sources |-> <<>>]
    /\ PlaylistItemMarker = {}
    /\ MergeMapping_PlaylistItemMarker = {}
    /\ marker_id_map = EmptyMap
    /\ max_marker_id = 0
    /\ mk_item_id_map = EmptyMap
    /\ mk_unique = FALSE
    /\ mk_pc = "idle"
    /\ mk_db = 1
    /\ mk_i = 1
    /\ mk_from = {}

IdleLater ==
    /\ IdlePlaylist
    /\ IdleMergeData
    /\ IdleBlockRange
    /\ IdleOther
    /\ IdleMarker

\* ================================================================ Location
\* The nine descriptive columns of a Location row.
LocCols == {"BookNumber", "ChapterNumber", "DocumentId", "Track", "IssueTagNumber",
            "KeySymbol", "MepsLanguage", "Type", "Title"}

LocBase == [BookNumber |-> 1, ChapterNumber |-> 1, DocumentId |-> NULL, Track |-> NULL,
            IssueTagNumber |-> 0, KeySymbol |-> 1, MepsLanguage |-> 0, Type |-> 0,
            Title |-> NULL]

\* The descriptive tuples the sources draw their rows from.
LocTuples == {LocBase,
              [LocBase EXCEPT !.BookNumber = NULL],
              [LocBase EXCEPT !.BookNumber = 2],
              [LocBase EXCEPT !.IssueTagNumber = NULL],
              [LocBase EXCEPT !.Type = NULL]}

LocRow(id, t) == [LocationId |-> id] @@ t

LocTuple(r) == [c \in LocCols |-> r[c]]

\* A source Location table: LocationId is the primary key, rows in key order.
SrcLocationTables ==
    {[i \in 1..Len(ts) |-> LocRow(i, ts[i])] : ts \in SeqsUpTo(LocTuples, MaxLocRows)}

\* read_locations(file1_db) + read_locations(file2_db)
read_locations(db) == [i \in 1..Len(srcLocation[db]) |-> [db |-> db, row |-> srcLocation[db][i]]]

locations == read_locations(1) \o read_locations(2)

\* SELECT NewID FROM MergeMapping_Location WHERE SourceDb = ? AND OldID = ?
LocMappingLookup_Skipped(db, old) == {}

LocMappingLookup(db, old) ==
    {m \in MergeMapping_Location : m.SourceDb = db /\ m.OldID = old}

\* The WHERE clause of the exact-match lookup.
LocMatches(r, t) ==
    /\ SqlIs(r.BookNumber, t.BookNumber)
    /\ SqlIs(r.ChapterNumber, t.ChapterNumber)
    /\ SqlIs(r.DocumentId, t.DocumentId)
    /\ SqlIs(r.Track, t.Track)
    /\ SqlEq(r.IssueTagNumber, t.IssueTagNumber)
    /\ SqlIs(r.KeySymbol, t.KeySymbol)
    /\ SqlIs(r.MepsLanguage, t.MepsLanguage)
    /\ SqlEq(r.Type, t.Type)
    /\ SqlIs(r.Title, t.Title)

LocExisting(t) == {r \in Location : LocMatches(r, t)}

\* INSERT OR IGNORE INTO MergeMapping_Location: the primary key is (SourceDb, OldID).
LocMappingInsertOrIgnore(M, db, old, new) ==
    IF \E m \in M : m.SourceDb = db /\ m.OldID = old
    THEN M
    ELSE M \cup {[SourceDb |-> db, OldID |-> old, NewID |-> new]}

InitLocation ==
    /\ IdleLater
    /\ srcLocation \in [Sources -> SrcLocationTables]
    /\ Location = {}
    /\ MergeMapping_Location = {}
    /\ location_id_map = EmptyMap
    /\ current_max_id = 0
    /\ loc_pc = "idle"
    /\ loc_i = 1
    /\ loc_run = 0
    /\ loc_first_map = EmptyMap
    /\ loc_inserted = 0
    /\ IdleUserMark
    /\ IdleNote
    /\ IdleBookmark
    /\ IdleTag

\* Entry of merge_location_from_sources up to the loop: the mapping table is
\* created if missing, MAX(LocationId) is read, the dict is empty.
LocEnter ==
    /\ loc_pc \in {"idle", "done"}
    /\ loc_run < MaxLocRuns
    /\ loc_run' = loc_run + 1
    /\ current_max_id' = MaxOf({r.LocationId : r \in Location})
    /\ location_id_map' = EmptyMap
    /\ loc_inserted' = 0
    /\ loc_i' = 1
    /\ loc_pc' = "loop"
    /\ UNCHANGED <<srcLocation, Location, MergeMapping_Location, loc_first_map>>
    /\ UNCHANGED notLoc

\* Loop body, the row is already in MergeMapping_Location.
LocRowMapped ==
    /\ loc_pc = "loop" /\ loc_i <= Len(locations)
    /\ LET e == locations[loc_i]
           res == LocMappingLookup(e.db, e.row.LocationId)
       IN /\ res # {}
          /\ location_id_map' =
                (<<e.db, e.row.LocationId>> :> (CHOOSE m \in res : TRUE).NewID) @@ location_id_map
    /\ loc_i' = loc_i + 1
    /\ UNCHANGED <<srcLocation, Location, MergeMapping_Location, current_max_id, loc_pc,
                   loc_run, loc_first_map, loc_inserted>>
    /\ UNCHANGED notLoc

\* Loop body, a content-equal row exists: its id is reused.
LocRowExisting ==
    /\ loc_pc = "loop" /\ loc_i <= Len(locations)
    /\ LET e == locations[loc_i]
           old == e.row.LocationId
           existing == LocExisting(LocTuple(e.row))
           new_id == MinOf({r.LocationId : r \in existing})
       IN /\ LocMappingLookup(e.db, old) = {}
          /\ existing # {}
          /\ location_id_map' = (<<e.db, old>> :> new_id) @@ location_id_map
          /\ MergeMapping_Location' =
                LocMappingInsertOrIgnore(MergeMapping_Location, e.db, old, new_id)
    /\ loc_i' = loc_i + 1
    /\ UNCHANGED <<srcLocation, Location, current_max_id, loc_pc, loc_run, loc_first_map,
                   loc_inserted>>
    /\ UNCHANGED notLoc

\* Loop body, no content-equal row: insert under max+1.
LocRowInsert ==
    /\ loc_pc = "loop" /\ loc_i <= Len(locations)
    /\ LET e == locations[loc_i]
           old == e.row.LocationId
           new_id == current_max_id + 1
       IN /\ LocMappingLookup(e.db, old) = {}
          /\ LocExisting(LocTuple(e.row)) = {}
          /\ current_max_id' = new_id
          /\ Location' = Location \cup {LocRow(new_id, LocTuple(e.row))}
          /\ location_id_map' = (<<e.db, old>> :> new_id) @@ location_id_map
          /\ MergeMapping_Location' =
                LocMappingInsertOrIgnore(MergeMapping_Location, e.db, old, new_id)
    /\ loc_inserted' = loc_inserted + 1
    /\ loc_i' = loc_i + 1
    /\ UNCHANGED <<srcLocation, loc_pc, loc_run, loc_first_map>>
    /\ UNCHANGED notLoc

\* End of the loop: commit and return location_id_map.
LocReturn ==
    /\ loc_pc = "loop" /\ loc_i > Len(locations)
    /\ loc_pc' = "done"
    /\ loc_first_map' = IF loc_run = 1 THEN location_id_map ELSE loc_first_map
    /\ UNCHANGED <<srcLocation, Location, MergeMapping_Location, location_id_map,
                   current_max_id, loc_i, loc_run, loc_inserted>>
    /\ UNCHANGED notLoc

NextLocation ==
    \/ LocEnter
    \/ LocRowMapped
    \/ LocRowExisting
    \/ LocRowInsert
    \/ LocReturn

SpecLocation == InitLocation /\ [][NextLocation]_vars

\* ================================================================ UserMark
\* uuid.uuid4(): the n-th value drawn; it differs from every GUID of the
\* sources (positive numbers below 10) and from every value drawn before.
Uuid4(n) == 10 + n

\* A merged Location table that a location_id_map refers to: one row per id.
LocationOfIds(ids) == {LocRow(id, [LocBase EXCEPT !.ChapterNumber = id]) : id \in ids}

MapRange(f) == {f[k] : k \in DOMAIN f}

\* location_id_map as LocationMerger may return it for sources whose
\* Location tables hold the ids 1 and 2: the two sources share merged row 1;
\* source 2's Location 2 has no mapping in the second.
LocMapFull == (<<1, 1>> :> 1) @@ (<<1, 2>> :> 2) @@ (<<2, 1>> :> 1) @@ (<<2, 2>> :> 3)

LocMapPartial == (<<1, 1>> :> 1) @@ (<<1, 2>> :> 2) @@ (<<2, 1>> :> 2)

LocMaps == {LocMapFull, LocMapPartial}

UMBase == [ColorIndex |-> 1, LocationId |-> 1, StyleIndex |-> 0, UserMarkGuid |-> 1,
           Version |-> 1]

\* The rows (without the key) the source UserMark tables draw from.
UMTemplates == {UMBase,
                [UMBase EXCEPT !.ColorIndex = 2],
                [UMBase EXCEPT !.LocationId = 2],
                [UMBase EXCEPT !.Version = 2],
                [UMBase EXCEPT !.UserMarkGuid = 2]}

UMRowOf(id, t) == [UserMarkId |-> id] @@ t

SrcUserMarkTables ==
    {[i \in 1..Len(ts) |-> UMRowOf(i, ts[i])] : ts \in SeqsUpTo(UMTemplates, MaxUMRows)}

\* The rows of file1_db then of file2_db, as the nested loops visit them.
um_read(db) == [i \in 1..Len(srcUserMark[db]) |-> [db |-> db, row |-> srcUserMark[db][i]]]

um_rows == um_read(1) \o um_read(2)

\* SELECT NewUserMarkId FROM MergeMapping_UserMark WHERE SourceDb = ? AND OldUserMarkId = ?
UMMappingLookup(db, old) ==
    {m \in MergeMapping_UserMark : m.SourceDb = db /\ m.OldUserMarkId = old}

\* location_id_map.get((db_path, loc_id), loc_id) if loc_id is not None else None
UMNewLoc(db, loc_id) ==
    IF loc_id = NULL THEN NULL
    ELSE IF <<db, loc_id>> \in DOMAIN location_id_map THEN location_id_map[<<db, loc_id>>]
    ELSE loc_id

\* SELECT ... FROM UserMark WHERE UserMarkGuid = ?
UMByGuid(guid) == {r \in UserMark : SqlEq(r.UserMarkGuid, guid)}

\* (color, new_loc, style, version) == (existing_color, existing_loc, existing_style, existing_version)
UMSamePayload(r, new_loc, ex) ==
    <<r.ColorIndex, new_loc, r.StyleIndex, r.Version>> =
    <<ex.ColorIndex, ex.LocationId, ex.StyleIndex, ex.Version>>

\* The GUID the divergent row is inserted under.
UMConflictGuid_Reused(guid, n) == guid

UMConflictGuid(guid, n) == Uuid4(n)

\* INSERT OR REPLACE INTO MergeMapping_UserMark: the primary key is (SourceDb, OldUserMarkId).
UMMappingInsertOrReplace(M, db, old, new) ==
    {m \in M : ~(m.SourceDb = db /\ m.OldUserMarkId = old)}
        \cup {[SourceDb |-> db, OldUserMarkId |-> old, NewUserMarkId |-> new]}

\* Entry of merge_usermark_from_sources up to the loops.
UMEnter ==
    /\ um_pc = "idle"
    /\ um_mapping' = EmptyMap
    /\ um_guid_mapping' = EmptyMap
    /\ um_max_id' = MaxOf({r.UserMarkId : r \in UserMark})
    /\ um_i' = 1
    /\ um_pc' = "loop"
    /\ UNCHANGED <<srcUserMark, UserMark, MergeMapping_UserMark, um_split, uuid_n>>
    /\ UNCHANGED notUM

\* Loop body for one source row.
UMRow ==
    /\ um_pc = "loop" /\ um_i <= Len(um_rows)
    /\ LET db == um_rows[um_i].db
           r == um_rows[um_i].row
           old == r.UserMarkId
           guid == r.UserMarkGuid
           res == UMMappingLookup(db, old)
           new_loc == UMNewLoc(db, r.LocationId)
           found == UMByGuid(guid)
           ex == CHOOSE x \in found : \A y \in found : x.UserMarkId <= y.UserMarkId
           fresh == [r EXCEPT !.UserMarkId = um_max_id + 1, !.LocationId = new_loc]
       IN IF res # {}
          THEN \* already mapped
               /\ um_mapping' = (<<db, old>> :> (CHOOSE m \in res : TRUE).NewUserMarkId) @@ um_mapping
               /\ um_guid_mapping' = (guid :> (CHOOSE m \in res : TRUE).NewUserMarkId) @@ um_guid_mapping
               /\ UNCHANGED <<UserMark, MergeMapping_UserMark, um_max_id, um_split, uuid_n>>
          ELSE IF found # {} /\ UMSamePayload(r, new_loc, ex)
          THEN \* identical row: reuse its id
               /\ um_mapping' = (<<db, old>> :> ex.UserMarkId) @@ um_mapping
               /\ um_guid_mapping' = (guid :> ex.UserMarkId) @@ um_guid_mapping
               /\ MergeMapping_UserMark' =
                     UMMappingInsertOrReplace(MergeMapping_UserMark, db, old, ex.UserMarkId)
               /\ UNCHANGED <<UserMark, um_max_id, um_split, uuid_n>>
          ELSE IF found # {}
          THEN \* same GUID, different data: new row under a new GUID
               /\ uuid_n' = uuid_n + 1
               /\ um_max_id' = um_max_id + 1
               /\ UserMark' = UserMark \cup
                     {[fresh EXCEPT !.UserMarkGuid = UMConflictGuid(guid, uuid_n + 1)]}
               /\ um_mapping' = (<<db, old>> :> um_max_id + 1) @@ um_mapping
               /\ um_guid_mapping' = (guid :> um_max_id + 1) @@ um_guid_mapping
               /\ MergeMapping_UserMark' =
                     UMMappingInsertOrReplace(MergeMapping_UserMark, db, old, um_max_id + 1)
               /\ um_split' = um_split \cup
                     {[db |-> db, old |-> old, guid |-> guid, existing |-> ex.UserMarkId,
                       new |-> um_max_id + 1]}
          ELSE \* unknown GUID: new row
               /\ um_max_id' = um_max_id + 1
               /\ UserMark' = UserMark \cup {fresh}
               /\ um_mapping' = (<<db, old>> :> um_max_id + 1) @@ um_mapping
               /\ um_guid_mapping' = (guid :> um_max_id + 1) @@ um_guid_mapping
               /\ MergeMapping_UserMark' =
                     UMMappingInsertOrReplace(MergeMapping_UserMark, db, old, um_max_id + 1)
               /\ UNCHANGED <<um_split, uuid_n>>
    /\ um_i' = um_i + 1
    /\ UNCHANGED <<srcUserMark, um_pc>>
    /\ UNCHANGED notUM

\* End of the loops: commit and return mapping.
UMReturn ==
    /\ um_pc = "loop" /\ um_i > Len(um_rows)
    /\ um_pc' = "done"
    /\ UNCHANGED <<srcUserMark, UserMark, MergeMapping_UserMark, um_mapping, um_guid_mapping,
                   um_max_id, um_i, um_split, uuid_n>>
    /\ UNCHANGED notUM

\* merge_data has run LocationMerger; the UserMark merger starts on a merged
\* database without UserMark rows.
InitUserMark ==
    /\ IdleLater
    /\ location_id_map \in LocMaps
    /\ srcLocation = [db \in Sources |-> <<>>]
    /\ Location = LocationOfIds(MapRange(location_id_map))
    /\ MergeMapping_Location =
          {[SourceDb |-> k[1], OldID |-> k[2], NewID |-> location_id_map[k]] :
              k \in DOMAIN location_id_map}
    /\ current_max_id = MaxOf(MapRange(location_id_map))
    /\ loc_pc = "done"
    /\ loc_i = 1
    /\ loc_run = MaxLocRuns
    /\ loc_first_map = location_id_map
    /\ loc_inserted = 0
    /\ srcUserMark \in [Sources -> SrcUserMarkTables]
    /\ UserMark = {}
    /\ MergeMapping_UserMark = {}
    /\ um_mapping = EmptyMap
    /\ um_guid_mapping = EmptyMap
    /\ um_max_id = 0
    /\ um_pc = "idle"
    /\ um_i = 1
    /\ um_split = {}
    /\ uuid_n = 0
    /\ IdleNote
    /\ IdleBookmark
    /\ IdleTag

NextUserMark ==
    \/ UMEnter
    \/ UMRow
    \/ UMReturn

SpecUserMark == InitUserMark /\ [][NextUserMark]_vars

\* ==================================================================== Note
\* A key a dict lacks (.get returns its default).
Absent == "absent"

NoteBase == [Guid |-> 1, UserMarkGuid |-> 1, LocationId |-> 1, Title |-> "A",
             Content |-> "x"]

\* The rows (without the key) the source Note tables draw from.  LastModified,
\* Created, BlockType and BlockIdentifier are copied as they are and left out.
NoteTemplates == {NoteBase,
                  [NoteBase EXCEPT !.Title = "B", !.UserMarkGuid = NULL],
                  [NoteBase EXCEPT !.Guid = NULL, !.Content = "y", !.LocationId = 2]}

NoteRowOf(id, t) == [NoteId |-> id] @@ t

\* fetch_notes(db_path) for every content of the source's Note table
SrcNoteTables ==
    {[i \in 1..Len(ts) |-> NoteRowOf(i, ts[i])] : ts \in SeqsUpTo(NoteTemplates, MaxNoteRows)}

\* choice_data["edited"][file]: the fields the caller edited
NoEdit == [Title |-> Absent, Content |-> Absent]

NoteEdits == {[file1 |-> NoEdit, file2 |-> NoEdit],
              [file1 |-> [Title |-> "B", Content |-> Absent],
               file2 |-> [Title |-> "A", Content |-> "y"]]}

\* One entry of note_choices: choice, noteIds.file1, noteIds.file2, edited.
NoteChoiceEntries ==
    [choice : {"file1", "file2", "both", "ignore"},
     file1 : {NULL} \cup (1..MaxNoteRows),
     file2 : {NULL} \cup (1..MaxNoteRows),
     edited : NoteEdits]

\* notes1_dict / notes2_dict: old_id in the dict, and its row
NoteInSource(db, id) == \E i \in 1..Len(srcNote[db]) : srcNote[db][i].NoteId = id

\* The source notes an entry names through noteIds.
NoteKeysNamed(e) ==
    {k \in {<<1, e.file1>>, <<2, e.file2>>} : NoteInSource(k[1], k[2])}

NoteOfSource(db, id) ==
    srcNote[db][CHOOSE i \in 1..Len(srcNote[db]) : srcNote[db][i].NoteId = id]

\* merge_data rebuilds usermark_guid_map from the merged UserMark table.
usermark_guid_map ==
    [g \in {r.UserMarkGuid : r \in UserMark} |->
        MaxOf({r.UserMarkId : r \in {x \in UserMark : x.UserMarkGuid = g}})]

\* norm_map.get((source, location_id)) if location_id else None
NoteNewLoc(db, location_id) ==
    IF location_id = NULL \/ location_id = 0 THEN NULL
    ELSE IF <<db, location_id>> \in DOMAIN location_id_map THEN location_id_map[<<db, location_id>>]
    ELSE NULL

\* usermark_guid_map.get(usermark_guid) if usermark_guid else None
NoteNewUM(usermark_guid) ==
    IF usermark_guid = NULL THEN NULL
    ELSE IF usermark_guid \in DOMAIN usermark_guid_map THEN usermark_guid_map[usermark_guid]
    ELSE NULL

\* (existing and (existing[1], existing[2]) != (title, content)) and str(uuid.uuid4()) or guid
NoteGuidToInsert_Kept(guid, differs, n) == guid

NoteGuidToInsert(guid, differs, n) == IF differs THEN Uuid4(n) ELSE guid

\* existing[1] == title and existing[2] == content
NoteIdentical_GuidOnly(ex, title, content) == TRUE

NoteIdentical(ex, title, content) == ex.Title = title /\ ex.Content = content

\* The database and dict state merge_notes works on.
NoteState == [Note |-> Note, note_mapping |-> note_mapping, uuid_n |-> uuid_n]

\* The part the three passes share, for one source row with the Title and
\* Content to store: remap, look the GUID up, map to the identical row or
\* insert.  st is the state before, the value is the state after.
NoteMergeRow(st, db, r, title, content) ==
    LET new_loc == NoteNewLoc(db, r.LocationId)
        new_um == NoteNewUM(r.UserMarkGuid)
        found == {x \in st.Note : SqlEq(x.Guid, r.Guid)}
        ex == CHOOSE x \in found : \A y \in found : x.NoteId <= y.NoteId
        new_id == MaxOf({x.NoteId : x \in st.Note}) + 1
    IN IF new_loc = NULL
       THEN st
       ELSE IF found # {} /\ NoteIdentical(ex, title, content)
       THEN [st EXCEPT !.note_mapping = (<<db, r.NoteId>> :> ex.NoteId) @@ st.note_mapping]
       ELSE [Note |-> st.Note \cup
                 {[NoteId |-> new_id,
                   Guid |-> NoteGuidToInsert(r.Guid, found # {}, st.uuid_n + 1),
                   UserMarkId |-> new_um, LocationId |-> new_loc,
                   Title |-> title, Content |-> content]},
             note_mapping |-> (<<db, r.NoteId>> :> new_id) @@ st.note_mapping,
             uuid_n |-> IF found # {} THEN st.uuid_n + 1 ELSE st.uuid_n]

\* edited_content.get(source_key, {}).get(field, value)
NoteEdited(e, db, field, value) ==
    LET ed == IF db = 1 THEN e.edited.file1 ELSE e.edited.file2
    IN IF ed[field] = Absent THEN value ELSE ed[field]

\* The source whose row an entry is resolved to, 0 when there is none.
NoteBaseSource(e) ==
    IF e.choice = "file1" THEN (IF NoteInSource(1, e.file1) THEN 1 ELSE 0)
    ELSE IF e.choice = "file2" THEN (IF NoteInSource(2, e.file2) THEN 2 ELSE 0)
    ELSE IF e.choice = "both"
         THEN (IF NoteInSource(1, e.file1) THEN 1
               ELSE IF NoteInSource(2, e.file2) THEN 2 ELSE 0)
    ELSE 0

\* Pass 1 for one entry of note_choices.
NoteApplyChoice(st, e) ==
    LET db == NoteBaseSource(e)
        r == NoteOfSource(db, IF db = 1 THEN e.file1 ELSE e.file2)
    IN IF e.choice = "ignore" \/ db = 0
       THEN st
       ELSE NoteMergeRow(st, db, r, NoteEdited(e, db, "Title", r.Title),
                         NoteEdited(e, db, "Content", r.Content))

\* Pass 2 (db = 1) or pass 3 (db = 2) from row i on: every row of the source
\* that has no mapping yet is merged as it is.
RECURSIVE NoteAutoPass(_, _, _)
NoteAutoPass(st, db, i) ==
    IF i > Len(srcNote[db]) THEN st
    ELSE LET r == srcNote[db][i]
         IN NoteAutoPass(IF <<db, r.NoteId>> \in DOMAIN st.note_mapping
                         THEN st
                         ELSE NoteMergeRow(st, db, r, r.Title, r.Content),
                         db, i + 1)

\* The key (source, old NoteId) an entry is resolved to, if any.
NotePicked(e) ==
    LET db == NoteBaseSource(e)
    IN IF e.choice = "ignore" \/ db = 0 THEN {}
       ELSE {<<db, IF db = 1 THEN e.file1 ELSE e.file2>>}

\* The note of the other source that an entry with choice = file1 or file2
\* names beside the one it is resolved to.
NoteUnchosen(e) ==
    IF e.choice \in {"file1", "file2"} /\ NoteBaseSource(e) # 0
    THEN NoteKeysNamed(e) \ NotePicked(e)
    ELSE {}

\* Entry of merge_notes: both sources are read, the mapping is empty.
NoteEnter ==
    /\ um_pc = "done"
    /\ note_pc = "idle"
    /\ note_pc' = "choices"
    /\ note_mapping' = EmptyMap
    /\ UNCHANGED <<srcNote, Note, note_nchoices, note_ignored, note_named, note_both, uuid_n,
                   note_picked, note_unchosen>>
    /\ UNCHANGED notNote

\* Pass 1, the next entry of note_choices.
NoteChoice(e) ==
    /\ note_pc = "choices"
    /\ note_nchoices < MaxNoteChoices
    /\ note_nchoices' = note_nchoices + 1
    /\ LET st == NoteApplyChoice(NoteState, e)
       IN /\ Note' = st.Note
          /\ note_mapping' = st.note_mapping
          /\ uuid_n' = st.uuid_n
    /\ note_ignored' = IF e.choice = "ignore" THEN note_ignored \cup NoteKeysNamed(e)
                       ELSE note_ignored
    /\ note_named' =
          IF e.choice = "ignore" THEN note_named
          ELSE [k \in DOMAIN note_named \cup NoteKeysNamed(e) |->
                   (IF k \in DOMAIN note_named THEN note_named[k] ELSE 0)
                   + (IF k \in NoteKeysNamed(e) THEN 1 ELSE 0)]
    /\ note_both' =
          IF e.choice = "both"
          THEN note_both \cup {[file1 |-> e.file1, file2 |-> e.file2,
                                edited |-> e.edited.file1 # NoEdit]}
          ELSE note_both
    /\ note_picked' = note_picked \cup NotePicked(e)
    /\ note_unchosen' = note_unchosen \cup NoteUnchosen(e)
    /\ UNCHANGED <<srcNote, note_pc>>
    /\ UNCHANGED notNote

\* note_choices is exhausted: pass 2 over notes1.
NoteAutoInclude1 ==
    /\ note_pc = "choices"
    /\ note_pc' = "auto2"
    /\ LET st == NoteAutoPass(NoteState, 1, 1)
       IN /\ Note' = st.Note
          /\ note_mapping' = st.note_mapping
          /\ uuid_n' = st.uuid_n
    /\ UNCHANGED <<srcNote, note_nchoices, note_ignored, note_named, note_both,
                   note_picked, note_unchosen>>
    /\ UNCHANGED notNote

\* Pass 3 over notes2, commit, return note_mapping.
NoteAutoInclude2 ==
    /\ note_pc = "auto2"
    /\ note_pc' = "done"
    /\ LET st == NoteAutoPass(NoteState, 2, 1)
       IN /\ Note' = st.Note
          /\ note_mapping' = st.note_mapping
          /\ uuid_n' = st.uuid_n
    /\ UNCHANGED <<srcNote, note_nchoices, note_ignored, note_named, note_both,
                   note_picked, note_unchosen>>
    /\ UNCHANGED notNote

\* The highlights of the two sources the notes hang on: the sources hold the
\* same UserMark 1, or source 2's has the same GUID and another colour.
NoteUserMarkSources ==
    {[db \in Sources |-> <<UMRowOf(1, UMBase)>>],
     [db \in Sources |-> <<UMRowOf(1, [UMBase EXCEPT !.ColorIndex = db])>>]}

\* merge_data has run LocationMerger; the UserMark merger and then merge_notes
\* run on a merged database without UserMark and Note rows.
InitNote ==
    /\ IdleLater
    /\ location_id_map = LocMapPartial
    /\ srcLocation = [db \in Sources |-> <<>>]
    /\ Location = LocationOfIds(MapRange(location_id_map))
    /\ MergeMapping_Location =
          {[SourceDb |-> k[1], OldID |-> k[2], NewID |-> location_id_map[k]] :
              k \in DOMAIN location_id_map}
    /\ current_max_id = MaxOf(MapRange(location_id_map))
    /\ loc_pc = "done"
    /\ loc_i = 1
    /\ loc_run = MaxLocRuns
    /\ loc_first_map = location_id_map
    /\ loc_inserted = 0
    /\ srcUserMark \in NoteUserMarkSources
    /\ UserMark = {}
    /\ MergeMapping_UserMark = {}
    /\ um_mapping = EmptyMap
    /\ um_guid_mapping = EmptyMap
    /\ um_max_id = 0
    /\ um_pc = "idle"
    /\ um_i = 1
    /\ um_split = {}
    /\ uuid_n = 0
    /\ srcNote \in [Sources -> SrcNoteTables]
    /\ Note = {}
    /\ note_mapping = EmptyMap
    /\ note_pc = "idle"
    /\ note_nchoices = 0
    /\ note_ignored = {}
    /\ note_named = EmptyMap
    /\ note_both = {}
    /\ note_picked = {}
    /\ note_unchosen = {}
    /\ IdleBookmark
    /\ IdleTag

NextNote ==
    \/ UMEnter
    \/ UMRow
    \/ UMReturn
    \/ NoteEnter
    \/ \E e \in NoteChoiceEntries : NoteChoice(e)
    \/ NoteAutoInclude1
    \/ NoteAutoInclude2

SpecNote == InitNote /\ [][NextNote]_vars

\* ================================================================ Bookmark
BmBase == [LocationId |-> 2, PublicationLocationId |-> 1, Slot |-> 0, Title |-> "A"]

\* The rows (without the key) the source Bookmark tables draw from.  Snippet,
\* BlockType and BlockIdentifier are the same in all of them and left out.
BmTemplates == {BmBase,
                [BmBase EXCEPT !.Title = "B"],
                [BmBase EXCEPT !.LocationId = 1, !.PublicationLocationId = 2],
                [BmBase EXCEPT !.LocationId = 1]}

BmRowOf(id, t) == [BookmarkId |-> id] @@ t

\* fetch_bookmarks(db_path) for every content of the source's Bookmark table
SrcBookmarkTables ==
    {[i \in 1..Len(ts) |-> BmRowOf(i, ts[i])] : ts \in SeqsUpTo(BmTemplates, MaxBmRows)}

\* choice_data["edited"]: the Title the caller edited, per file
BmEdits == {[file1 |-> Absent, file2 |-> Absent], [file1 |-> "B", file2 |-> "A"]}

\* One entry of bookmark_choices: choice, bookmarkIds.file1, bookmarkIds.file2, edited.
BmChoiceEntries ==
    [choice : {"file1", "file2", "both", "ignore"},
     file1 : {NULL} \cup (1..MaxBmRows),
     file2 : {NULL} \cup (1..MaxBmRows),
     edited : BmEdits]

\* next((b for b in bookmarks if b[0] == old_id), None)
BmInSource(db, id) == \E i \in 1..Len(srcBookmark[db]) : srcBookmark[db][i].BookmarkId = id

BmOfSource(db, id) ==
    srcBookmark[db][MinOf({i \in 1..Len(srcBookmark[db]) : srcBookmark[db][i].BookmarkId = id})]

\* The source whose bookmark an entry is resolved to, 0 when there is none.
BmBaseSource(e) ==
    IF e.choice = "file1" THEN (IF BmInSource(1, e.file1) THEN 1 ELSE 0)
    ELSE IF e.choice = "file2" THEN (IF BmInSource(2, e.file2) THEN 2 ELSE 0)
    ELSE IF e.choice = "both"
         THEN (IF BmInSource(1, e.file1) THEN 1
               ELSE IF BmInSource(2, e.file2) THEN 2 ELSE 0)
    ELSE 0

\* current_edited_data.get("Title", bookmark_to_process[4])
BmEdited(e, db, title) ==
    LET ed == IF db = 1 THEN e.edited.file1 ELSE e.edited.file2
    IN IF ed = Absent THEN title ELSE ed

\* location_id_map.get((source_db_origin, loc_id), loc_id)
BmNewLoc(db, loc_id) ==
    IF <<db, loc_id>> \in DOMAIN location_id_map THEN location_id_map[<<db, loc_id>>]
    ELSE loc_id

\* len(SELECT 1 FROM Location WHERE LocationId IN (?, ?)) == 2
BmLocationsExist(a, b) == Cardinality({r \in Location : r.LocationId \in {a, b}}) = 2

\* SELECT NewID FROM MergeMapping_Bookmark WHERE SourceDb = ? AND OldID = ?
BmMappingLookup(db, old) ==
    {m \in MergeMapping_Bookmark : m.SourceDb = db /\ m.OldID = old}

\* SELECT BookmarkId FROM Bookmark WHERE LocationId = ? AND PublicationLocationId = ? AND
\* Slot = ? AND Title = ? ...
BmDuplicates(new_loc, new_pub, slot, title) ==
    {r \in Bookmark : /\ SqlEq(r.LocationId, new_loc)
                      /\ SqlEq(r.PublicationLocationId, new_pub)
                      /\ SqlEq(r.Slot, slot)
                      /\ r.Title = title}

\* The slot the row is inserted at.
BmFreeSlot_Original(B, pub, slot) == slot

\* while True: ... current_slot += 1
RECURSIVE BmFreeSlot(_, _, _)
BmFreeSlot(B, pub, slot) ==
    IF \E r \in B : SqlEq(r.PublicationLocationId, pub) /\ SqlEq(r.Slot, slot)
    THEN BmFreeSlot(B, pub, slot + 1)
    ELSE slot

\* INSERT OR IGNORE / INSERT INTO MergeMapping_Bookmark: the primary key is (SourceDb, OldID).
BmMappingInsert(M, db, old, new) ==
    IF \E m \in M : m.SourceDb = db /\ m.OldID = old THEN M
    ELSE M \cup {[SourceDb |-> db, OldID |-> old, NewID |-> new]}

\* The key (source, old BookmarkId) an entry is resolved to, if any.
BmPicked(e) ==
    LET db == BmBaseSource(e)
    IN IF e.choice = "ignore" \/ db = 0 THEN {}
       ELSE {<<db, IF db = 1 THEN e.file1 ELSE e.file2>>}

\* Entry of merge_bookmarks: both sources are read, the mapping is empty.
BmEnter ==
    /\ bm_pc = "idle"
    /\ bm_pc' = "choices"
    /\ bm_mapping' = EmptyMap
    /\ UNCHANGED <<srcBookmark, Bookmark, MergeMapping_Bookmark, bm_nchoices, bm_both,
                   bm_probed, bm_picked, upd_i, upd_rows>>
    /\ UNCHANGED notBm

\* Loop body for the next entry of bookmark_choices.
BmChoice(e) ==
    /\ bm_pc = "choices"
    /\ bm_nchoices < MaxBmChoices
    /\ bm_nchoices' = bm_nchoices + 1
    /\ bm_both' = IF e.choice = "both" /\ BmInSource(1, e.file1) /\ BmInSource(2, e.file2)
                  THEN bm_both \cup {[file1 |-> e.file1, file2 |-> e.file2]}
                  ELSE bm_both
    /\ LET db == BmBaseSource(e)
           b == BmOfSource(db, IF db = 1 THEN e.file1 ELSE e.file2)
           old == b.BookmarkId
           title == BmEdited(e, db, b.Title)
           new_loc == BmNewLoc(db, b.LocationId)
           new_pub == BmNewLoc(db, b.PublicationLocationId)
           res == BmMappingLookup(db, old)
           dup == BmDuplicates(new_loc, new_pub, b.Slot, title)
           slot == BmFreeSlot(Bookmark, new_pub, b.Slot)
           new_id == MaxOf({r.BookmarkId : r \in Bookmark}) + 1
       IN IF e.choice = "ignore" \/ db = 0
          THEN UNCHANGED <<Bookmark, MergeMapping_Bookmark, bm_mapping, bm_probed>>
          ELSE IF ~BmLocationsExist(new_loc, new_pub)
          THEN UNCHANGED <<Bookmark, MergeMapping_Bookmark, bm_mapping, bm_probed>>
          ELSE IF res # {}
          THEN /\ bm_mapping' = (<<db, old>> :> (CHOOSE m \in res : TRUE).NewID) @@ bm_mapping
               /\ UNCHANGED <<Bookmark, MergeMapping_Bookmark, bm_probed>>
          ELSE IF dup # {}
          THEN /\ bm_mapping' = (<<db, old>> :> MinOf({r.BookmarkId : r \in dup})) @@ bm_mapping
               /\ MergeMapping_Bookmark' =
                     BmMappingInsert(MergeMapping_Bookmark, db, old,
                                     MinOf({r.BookmarkId : r \in dup}))
               /\ UNCHANGED <<Bookmark, bm_probed>>
          ELSE /\ Bookmark' = Bookmark \cup
                     {[BookmarkId |-> new_id, LocationId |-> new_loc,
                       PublicationLocationId |-> new_pub, Slot |-> slot, Title |-> title]}
               /\ bm_mapping' = (<<db, old>> :> new_id) @@ bm_mapping
               /\ MergeMapping_Bookmark' = BmMappingInsert(MergeMapping_Bookmark, db, old, new_id)
               /\ bm_probed' = (bm_probed \/ slot # b.Slot)
    /\ bm_picked' = bm_picked \cup BmPicked(e)
    /\ UNCHANGED <<srcBookmark, bm_pc, upd_i, upd_rows>>
    /\ UNCHANGED notBm

\* bookmark_choices is exhausted: commit and return mapping.
BmReturn ==
    /\ bm_pc = "choices"
    /\ bm_pc' = "merged"
    /\ UNCHANGED <<srcBookmark, Bookmark, MergeMapping_Bookmark, bm_mapping, bm_nchoices,
                   bm_both, bm_probed, bm_picked, upd_i, upd_rows>>
    /\ UNCHANGED notBm

\* The set S as the ascending sequence sorted() gives.
RECURSIVE SortedSeq(_)
SortedSeq(S) == IF S = {} THEN <<>> ELSE <<MinOf(S)>> \o SortedSeq(S \ {MinOf(S)})

\* {old_id: new_id for (_, old_id), new_id in sorted(location_id_map.items())}:
\* a key stays where it was first inserted, file2's value replaces file1's.
location_replacements_flat ==
    LET olds(db) == {k[2] : k \in {x \in DOMAIN location_id_map : x[1] = db}}
        keys == SortedSeq(olds(1)) \o SortedSeq(olds(2) \ olds(1))
    IN [i \in 1..Len(keys) |->
           [old_loc |-> keys[i],
            new_loc |-> IF keys[i] \in olds(2) THEN location_id_map[<<2, keys[i]>>]
                        ELSE location_id_map[<<1, keys[i]>>]]]

\* merge_data reaches the residual LocationId update.
UpdEnter ==
    /\ bm_pc = "merged"
    /\ bm_pc' = "update"
    /\ upd_i' = 1
    /\ upd_rows' = {}
    /\ UNCHANGED <<srcBookmark, Bookmark, MergeMapping_Bookmark, bm_mapping, bm_nchoices,
                   bm_both, bm_probed, bm_picked>>
    /\ UNCHANGED notBm

\* Next pair of location_replacements: UPDATE Bookmark SET LocationId, then the
\* rows whose PublicationLocationId is old_loc are fetched.
UpdPair ==
    /\ bm_pc = "update" /\ upd_rows = {} /\ upd_i <= Len(location_replacements_flat)
    /\ LET old_loc == location_replacements_flat[upd_i].old_loc
           new_loc == location_replacements_flat[upd_i].new_loc
           B == {IF SqlEq(r.LocationId, old_loc) THEN [r EXCEPT !.LocationId = new_loc] ELSE r :
                    r \in Bookmark}
           rows == {[BookmarkId |-> r.BookmarkId, Slot |-> r.Slot] :
                       r \in {x \in B : SqlEq(x.PublicationLocationId, old_loc)}}
       IN /\ Bookmark' = B
          /\ upd_rows' = rows
          /\ upd_i' = IF rows = {} THEN upd_i + 1 ELSE upd_i
    /\ UNCHANGED <<srcBookmark, MergeMapping_Bookmark, bm_mapping, bm_pc, bm_nchoices, bm_both,
                   bm_probed, bm_picked>>
    /\ UNCHANGED notBm

\* One fetched row: its PublicationLocationId is updated unless another row
\* holds (new_loc, Slot).  The fetch has no ORDER BY: any order.
UpdRow(row) ==
    /\ bm_pc = "update" /\ row \in upd_rows
    /\ LET new_loc == location_replacements_flat[upd_i].new_loc
           conflict == \E r \in Bookmark : /\ SqlEq(r.PublicationLocationId, new_loc)
                                          /\ SqlEq(r.Slot, row.Slot)
                                          /\ r.BookmarkId # row.BookmarkId
       IN IF conflict
          THEN UNCHANGED Bookmark
          ELSE Bookmark' = {IF r.BookmarkId = row.BookmarkId
                            THEN [r EXCEPT !.PublicationLocationId = new_loc] ELSE r :
                               r \in Bookmark}
    /\ upd_rows' = upd_rows \ {row}
    /\ upd_i' = IF upd_rows = {row} THEN upd_i + 1 ELSE upd_i
    /\ UNCHANGED <<srcBookmark, MergeMapping_Bookmark, bm_mapping, bm_pc, bm_nchoices, bm_both,
                   bm_probed, bm_picked>>
    /\ UNCHANGED notBm

\* location_replacements is exhausted: commit.
UpdReturn ==
    /\ bm_pc = "update" /\ upd_rows = {} /\ upd_i > Len(location_replacements_flat)
    /\ bm_pc' = "done"
    /\ UNCHANGED <<srcBookmark, Bookmark, MergeMapping_Bookmark, bm_mapping, bm_nchoices,
                   bm_both, bm_probed, bm_picked, upd_i, upd_rows>>
    /\ UNCHANGED notBm

\* merge_data has run LocationMerger over sources without highlights and
\* notes; the merged database has no Bookmark rows.
InitBookmark ==
    /\ IdleLater
    /\ location_id_map \in LocMaps
    /\ srcLocation = [db \in Sources |-> <<>>]
    /\ Location = LocationOfIds(MapRange(location_id_map))
    /\ MergeMapping_Location =
          {[SourceDb |-> k[1], OldID |-> k[2], NewID |-> location_id_map[k]] :
              k \in DOMAIN location_id_map}
    /\ current_max_id = MaxOf(MapRange(location_id_map))
    /\ loc_pc = "done"
    /\ loc_i = 1
    /\ loc_run = MaxLocRuns
    /\ loc_first_map = location_id_map
    /\ loc_inserted = 0
    /\ IdleUserMark
    /\ IdleNote
    /\ srcBookmark \in [Sources -> SrcBookmarkTables]
    /\ Bookmark = {}
    /\ MergeMapping_Bookmark = {}
    /\ bm_mapping = EmptyMap
    /\ bm_pc = "idle"
    /\ bm_nchoices = 0
    /\ bm_both = {}
    /\ bm_probed = FALSE
    /\ bm_picked = {}
    /\ upd_i = 1
    /\ upd_rows = {}
    /\ IdleTag

NextBookmark ==
    \/ BmEnter
    \/ \E e \in BmChoiceEntries : BmChoice(e)
    \/ BmReturn
    \/ UpdEnter
    \/ UpdPair
    \/ \E row \in upd_rows : UpdRow(row)
    \/ UpdReturn

SpecBookmark == InitBookmark /\ [][NextBookmark]_vars

\* ================================================================ Tag, TagMap
\* The rows (without the key) the source Tag tables draw from.
TagTemplates == {[Type |-> 1, Name |-> "t"], [Type |-> 1, Name |-> "u"]}

TagRowOf(id, t) == [TagId |-> id] @@ t

\* fetch_tags_as_dict(db_path) for every content of the source's Tag table
SrcTagTables ==
    {[i \in 1..Len(ts) |-> TagRowOf(i, ts[i])] : ts \in SeqsUpTo(TagTemplates, MaxTagRows)}

TMBase == [PlaylistItemId |-> NULL, LocationId |-> NULL, NoteId |-> 1, TagId |-> 1,
           Position |-> 0]

\* The rows (without the key) the source TagMap tables draw from: a note, a
\* location, a playlist item, a note and a location, no target, a note that
\* merge_notes did not map.
TMTemplates == {TMBase,
                [TMBase EXCEPT !.NoteId = NULL, !.LocationId = 1],
                [TMBase EXCEPT !.NoteId = NULL, !.PlaylistItemId = 1],
                [TMBase EXCEPT !.LocationId = 1],
                [TMBase EXCEPT !.NoteId = NULL],
                [TMBase EXCEPT !.NoteId = 2]}

TMRowOf(id, t) == [TagMapId |-> id] @@ t

SrcTagMapTables ==
    {[i \in 1..Len(ts) |-> TMRowOf(i, ts[i])] : ts \in SeqsUpTo(TMTemplates, MaxTagMapRows)}

\* item_id_map: {} at merge_data's first call of merge_tags_and_tagmap, the
\* playlist item mapping at its second.
ItemIdMaps == {EmptyMap, (<<1, 1>> :> 1) @@ (<<2, 1>> :> 1)}

\* The rows of tags1_dict then of tags2_dict, as the two loops visit them.
tag_rows ==
    [i \in 1..Len(srcTag[1]) |-> [db |-> 1, row |-> srcTag[1][i]]]
        \o [i \in 1..Len(srcTag[2]) |-> [db |-> 2, row |-> srcTag[2][i]]]

\* The TagMap rows of file1_db then of file2_db.
tagmap_rows ==
    [i \in 1..Len(srcTagMap[1]) |-> [db |-> 1, row |-> srcTagMap[1][i]]]
        \o [i \in 1..Len(srcTagMap[2]) |-> [db |-> 2, row |-> srcTagMap[2][i]]]

\* d.get(key): NULL stands for None
DictGet(d, key) == IF key \in DOMAIN d THEN d[key] ELSE NULL

\* `if x`: neither None nor 0
Truthy(x) == x # NULL /\ x # 0

\* normalized_note_mapping.get((db_path, note_id)) if note_id
TMNewNote(db, note_id) == IF Truthy(note_id) THEN DictGet(note_mapping, <<db, note_id>>) ELSE NULL

\* location_id_map.get((db_path, location_id)) if location_id else None
TMNewLoc(db, location_id) ==
    IF Truthy(location_id) THEN DictGet(location_id_map, <<db, location_id>>) ELSE NULL

\* item_id_map.get((db_path, playlist_item_id)) if playlist_item_id else None
TMNewItem(db, playlist_item_id) ==
    IF Truthy(playlist_item_id) THEN DictGet(item_id_map, <<db, playlist_item_id>>) ELSE NULL

\* sum(x is not None for x in [new_note_id, new_loc_id, new_pi_id])
TMTargets(n, l, p) == Cardinality({i \in 1..3 : <<n, l, p>>[i] # NULL})

\* The test a row passes to be inserted.
TMExactlyOne_Skipped(n, l, p) == TRUE

TMExactlyOne(n, l, p) == TMTargets(n, l, p) = 1

\* SELECT TagMapId FROM TagMap WHERE TagId=? AND IFNULL(..)=IFNULL(..) ... AND Position=?
TMDuplicates(tag, p, l, n, position) ==
    {r \in TagMap : /\ SqlEq(r.TagId, tag)
                    /\ r.PlaylistItemId = p
                    /\ r.LocationId = l
                    /\ r.NoteId = n
                    /\ SqlEq(r.Position, position)}

\* tentative = position; while a row has (TagId, tentative): tentative += 1
RECURSIVE TMFreePosition(_, _, _)
TMFreePosition(TM, tag, position) ==
    IF \E r \in TM : SqlEq(r.TagId, tag) /\ SqlEq(r.Position, position)
    THEN TMFreePosition(TM, tag, position + 1)
    ELSE position

\* The tables merge_tags_and_tagmap writes, in one connection and one transaction.
TagTables ==
    [Tag |-> Tag, TagMap |-> TagMap, MergeMapping_Tag |-> MergeMapping_Tag,
     MergeMapping_TagMap |-> MergeMapping_TagMap]

\* An exception leaves `with sqlite3.connect(...) as conn`: the tables after it,
\* saved being their content at the last commit and written their content now.
TagAfterError(saved, written) == saved

\* Entry of merge_tags_and_tagmap up to the Tag loops.
TagEnter ==
    /\ tag_pc = "idle"
    /\ tag_pc' = "tags"
    /\ tag_i' = 1
    /\ tag_id_map' = EmptyMap
    /\ max_tag_id' = MaxOf({r.TagId : r \in Tag})
    /\ tag_saved' = TagTables
    /\ UNCHANGED <<srcTag, srcTagMap, Tag, TagMap, MergeMapping_Tag, MergeMapping_TagMap,
                   tagmap_id_map, item_id_map, max_tagmap_id, tag_nchoices, tag_applied,
                   tag_run, tag_raised>>
    /\ UNCHANGED notTag

\* merge_data calls merge_tags_and_tagmap a second time, after merge_playlists,
\* with the item_id_map the playlist merger returned.
TagEnterAgain ==
    /\ tag_pc = "done" /\ tag_run = 1
    /\ tag_run' = 2
    /\ tag_pc' = "tags"
    /\ tag_i' = 1
    /\ tag_id_map' = EmptyMap
    /\ max_tag_id' = MaxOf({r.TagId : r \in Tag})
    /\ tag_saved' = TagTables
    /\ item_id_map' \in ItemIdMaps
    /\ UNCHANGED <<srcTag, srcTagMap, Tag, TagMap, MergeMapping_Tag, MergeMapping_TagMap,
                   tagmap_id_map, max_tagmap_id, tag_nchoices, tag_applied, tag_raised>>
    /\ UNCHANGED notTag

\* Body of the Tag loops for one source tag.
TagRow ==
    /\ tag_pc = "tags" /\ tag_i <= Len(tag_rows)
    /\ LET db == tag_rows[tag_i].db
           r == tag_rows[tag_i].row
           res == {m \in MergeMapping_Tag : m.SourceDb = db /\ m.OldTagId = r.TagId}
           found == {x \in Tag : SqlEq(x.Type, r.Type) /\ x.Name = r.Name}
           new_tag_id == IF found # {} THEN MinOf({x.TagId : x \in found}) ELSE max_tag_id + 1
       IN IF res # {}
          THEN /\ tag_id_map' = (<<db, r.TagId>> :> (CHOOSE m \in res : TRUE).NewTagId) @@ tag_id_map
               /\ UNCHANGED <<Tag, MergeMapping_Tag, max_tag_id>>
          ELSE /\ Tag' = IF found # {} THEN Tag
                         ELSE Tag \cup {[TagId |-> new_tag_id, Type |-> r.Type, Name |-> r.Name]}
               /\ max_tag_id' = IF found # {} THEN max_tag_id ELSE max_tag_id + 1
               /\ tag_id_map' = (<<db, r.TagId>> :> new_tag_id) @@ tag_id_map
               /\ MergeMapping_Tag' = MergeMapping_Tag \cup
                     {[SourceDb |-> db, OldTagId |-> r.TagId, NewTagId |-> new_tag_id]}
    /\ tag_i' = tag_i + 1
    /\ UNCHANGED <<srcTag, srcTagMap, TagMap, MergeMapping_TagMap, tagmap_id_map, item_id_map,
                   max_tagmap_id, tag_pc, tag_nchoices, tag_applied, tag_run,
                   tag_saved, tag_raised>>
    /\ UNCHANGED notTag

\* End of the Tag loops: the TagMap pass starts.
TagMapEnter ==
    /\ tag_pc = "tags" /\ tag_i > Len(tag_rows)
    /\ tag_pc' = "tagmaps"
    /\ tag_i' = 1
    /\ max_tagmap_id' = MaxOf({r.TagMapId : r \in TagMap})
    /\ tagmap_id_map' = EmptyMap
    /\ UNCHANGED <<srcTag, srcTagMap, Tag, TagMap, MergeMapping_Tag, MergeMapping_TagMap,
                   tag_id_map, item_id_map, max_tag_id, tag_nchoices, tag_applied, tag_run,
                   tag_saved, tag_raised>>
    /\ UNCHANGED notTag

\* Body of the TagMap pass for one source row.  The INSERT INTO
\* MergeMapping_TagMap is a plain one: a row with the same (SourceDb,
\* OldTagMapId) raises IntegrityError, which nothing in the function catches;
\* merge_data catches it and goes on with empty maps.
TagMapRow ==
    /\ tag_pc = "tagmaps" /\ tag_i <= Len(tagmap_rows)
    /\ LET db == tagmap_rows[tag_i].db
           r == tagmap_rows[tag_i].row
           new_tag_id == DictGet(tag_id_map, <<db, r.TagId>>)
           new_note_id == TMNewNote(db, r.NoteId)
           new_loc_id == TMNewLoc(db, r.LocationId)
           new_pi_id == TMNewItem(db, r.PlaylistItemId)
           tentative == TMFreePosition(TagMap, new_tag_id, r.Position)
           inserted == TagMap \cup
                     {[TagMapId |-> max_tagmap_id + 1, PlaylistItemId |-> new_pi_id,
                       LocationId |-> new_loc_id, NoteId |-> new_note_id,
                       TagId |-> new_tag_id, Position |-> tentative]}
           after == TagAfterError(tag_saved, [TagTables EXCEPT !.TagMap = inserted])
       IN IF \/ new_tag_id = NULL
             \/ (Truthy(r.NoteId) /\ new_note_id = NULL)
             \/ ~TMExactlyOne(new_note_id, new_loc_id, new_pi_id)
             \/ TMDuplicates(new_tag_id, new_pi_id, new_loc_id, new_note_id, r.Position) # {}
          THEN /\ tag_i' = tag_i + 1
               /\ UNCHANGED <<Tag, TagMap, MergeMapping_Tag, MergeMapping_TagMap, tag_id_map,
                              tagmap_id_map, max_tagmap_id, tag_pc, tag_raised>>
          ELSE IF \E m \in MergeMapping_TagMap : m.SourceDb = db /\ m.OldTagMapId = r.TagMapId
          THEN /\ Tag' = after.Tag
               /\ TagMap' = after.TagMap
               /\ MergeMapping_Tag' = after.MergeMapping_Tag
               /\ MergeMapping_TagMap' = after.MergeMapping_TagMap
               /\ tag_id_map' = EmptyMap
               /\ tagmap_id_map' = EmptyMap
               /\ tag_raised' = (tag_raised \/ tag_run = 2)
               /\ tag_pc' = IF tag_run = 1 THEN "merged" ELSE "done2"
               /\ UNCHANGED <<tag_i, max_tagmap_id>>
          ELSE /\ max_tagmap_id' = max_tagmap_id + 1
               /\ TagMap' = inserted
               /\ MergeMapping_TagMap' = MergeMapping_TagMap \cup
                     {[SourceDb |-> db, OldTagMapId |-> r.TagMapId,
                       NewTagMapId |-> max_tagmap_id + 1]}
               /\ tagmap_id_map' = (<<db, r.TagMapId>> :> max_tagmap_id + 1) @@ tagmap_id_map
               /\ tag_i' = tag_i + 1
               /\ UNCHANGED <<Tag, MergeMapping_Tag, tag_id_map, tag_pc, tag_raised>>
    /\ UNCHANGED <<srcTag, srcTagMap, item_id_map, max_tag_id, tag_nchoices, tag_applied,
                   tag_run, tag_saved>>
    /\ UNCHANGED notTag

\* End of the TagMap pass: return tag_id_map, tagmap_id_map.
TagReturn ==
    /\ tag_pc = "tagmaps" /\ tag_i > Len(tagmap_rows)
    /\ tag_pc' = IF tag_run = 1 THEN "merged" ELSE "done2"
    /\ UNCHANGED <<srcTag, srcTagMap, Tag, TagMap, MergeMapping_Tag, MergeMapping_TagMap,
                   tag_id_map, tagmap_id_map, item_id_map, max_tag_id, max_tagmap_id, tag_i,
                   tag_nchoices, tag_applied, tag_run,
                   tag_saved, tag_raised>>
    /\ UNCHANGED notTag

\* The lists of old tag ids the caller selects for a note.
SelectedTags == {<<>>, <<1>>, <<2, 1>>, <<1, 1>>}

\* One entry of note_choices as apply_selected_tags reads it: choice, noteIds,
\* and the list it applies (selectedTags for both, selectedTagsPerSource[choice]
\* for file1 and file2).
ApplyChoiceEntries ==
    [choice : {"file1", "file2", "both", "ignore"},
     file1 : {NULL} \cup (1..MaxNoteRows),
     file2 : {NULL} \cup (1..MaxNoteRows),
     tags : SelectedTags]

\* The loop over the selected tags: a TagMap row (NoteId, TagId, Position) per
\* tag that tag_id_map resolves, at MAX(Position) + 1 of the tag.
RECURSIVE ApplyInsertTags(_, _, _, _)
ApplyInsertTags(TM, new_note_id, db, tags) ==
    IF tags = <<>> THEN TM
    ELSE LET new_tag_id == DictGet(tag_id_map, <<db, Head(tags)>>)
             position == MaxOf({r.Position : r \in {x \in TM : SqlEq(x.TagId, new_tag_id)}}) + 1
             row == [TagMapId |-> MaxOf({r.TagMapId : r \in TM}) + 1,
                     PlaylistItemId |-> NULL, LocationId |-> NULL, NoteId |-> new_note_id,
                     TagId |-> new_tag_id, Position |-> position]
         IN ApplyInsertTags(IF new_tag_id = NULL THEN TM ELSE TM \cup {row},
                            new_note_id, db, Tail(tags))

\* The inserts alone, the rows the note had being kept.
ApplyToNote_Kept(TM, db, old_note_id, tags) ==
    LET new_note_id == DictGet(note_mapping, <<db, old_note_id>>)
    IN IF ~Truthy(old_note_id) \/ ~Truthy(new_note_id) THEN TM
       ELSE ApplyInsertTags(TM, new_note_id, db, tags)

\* One source note of an entry: DELETE FROM TagMap WHERE NoteId = ?, then the inserts.
ApplyToNote(TM, db, old_note_id, tags) ==
    LET new_note_id == DictGet(note_mapping, <<db, old_note_id>>)
    IN IF ~Truthy(old_note_id) \/ ~Truthy(new_note_id) THEN TM
       ELSE ApplyInsertTags({r \in TM : ~SqlEq(r.NoteId, new_note_id)}, new_note_id, db, tags)

\* merge_data calls apply_selected_tags.
ApplyEnter ==
    /\ tag_pc = "merged"
    /\ tag_pc' = "apply"
    /\ UNCHANGED <<srcTag, srcTagMap, Tag, TagMap, MergeMapping_Tag, MergeMapping_TagMap,
                   tag_id_map, tagmap_id_map, item_id_map, max_tag_id, max_tagmap_id, tag_i,
                   tag_nchoices, tag_applied, tag_run,
                   tag_saved, tag_raised>>
    /\ UNCHANGED notTag

\* The sources whose note an entry applies its tags to, in order.
ApplySources(e) ==
    IF e.choice = "both" THEN <<1, 2>>
    ELSE IF e.choice = "file1" THEN <<1>>
    ELSE IF e.choice = "file2" THEN <<2>>
    ELSE <<>>

\* The merged notes an entry reaches: old_note_id and new_note_id are truthy.
ApplyLog(e) ==
    LET old(db) == IF db = 1 THEN e.file1 ELSE e.file2
        all == [i \in 1..Len(ApplySources(e)) |->
                   [db |-> ApplySources(e)[i],
                    note |-> IF Truthy(old(ApplySources(e)[i]))
                             THEN DictGet(note_mapping, <<ApplySources(e)[i], old(ApplySources(e)[i])>>)
                             ELSE NULL,
                    tags |-> e.tags]]
        reached(a) == Truthy(a.note)
    IN SelectSeq(all, reached)

\* Loop body of apply_selected_tags for the next entry of note_choices.
ApplyChoice(e) ==
    /\ tag_pc = "apply"
    /\ tag_nchoices < MaxTagChoices
    /\ tag_nchoices' = tag_nchoices + 1
    /\ tag_applied' = tag_applied \o ApplyLog(e)
    /\ TagMap' =
          IF e.choice = "both"
          THEN ApplyToNote(ApplyToNote(TagMap, 1, e.file1, e.tags), 2, e.file2, e.tags)
          ELSE IF e.choice = "file1" THEN ApplyToNote(TagMap, 1, e.file1, e.tags)
          ELSE IF e.choice = "file2" THEN ApplyToNote(TagMap, 2, e.file2, e.tags)
          ELSE TagMap
    /\ UNCHANGED <<srcTag, srcTagMap, Tag, MergeMapping_Tag, MergeMapping_TagMap, tag_id_map,
                   tagmap_id_map, item_id_map, max_tag_id, max_tagmap_id, tag_pc, tag_i,
                   tag_run, tag_saved, tag_raised>>
    /\ UNCHANGED notTag

\* note_choices is exhausted: commit.
ApplyReturn ==
    /\ tag_pc = "apply"
    /\ tag_pc' = "done"
    /\ UNCHANGED <<srcTag, srcTagMap, Tag, TagMap, MergeMapping_Tag, MergeMapping_TagMap,
                   tag_id_map, tagmap_id_map, item_id_map, max_tag_id, max_tagmap_id, tag_i,
                   tag_nchoices, tag_applied, tag_run,
                   tag_saved, tag_raised>>
    /\ UNCHANGED notTag

\* The notes merge_notes left: source 1's note 1 and source 2's note 1 are
\* merged notes 1 and 2, no other source note is mapped.
TagNotes ==
    {[NoteId |-> id, Guid |-> id, UserMarkId |-> NULL, LocationId |-> 1, Title |-> "A",
      Content |-> "x"] : id \in {1, 2}}

\* merge_data has run the Location, UserMark, Bookmark and Note mergers; the
\* merged database has no Tag and no TagMap rows.
InitTag ==
    /\ IdleLater
    /\ location_id_map = LocMapPartial
    /\ srcLocation = [db \in Sources |-> <<>>]
    /\ Location = LocationOfIds(MapRange(location_id_map))
    /\ MergeMapping_Location =
          {[SourceDb |-> k[1], OldID |-> k[2], NewID |-> location_id_map[k]] :
              k \in DOMAIN location_id_map}
    /\ current_max_id = MaxOf(MapRange(location_id_map))
    /\ loc_pc = "done"
    /\ loc_i = 1
    /\ loc_run = MaxLocRuns
    /\ loc_first_map = location_id_map
    /\ loc_inserted = 0
    /\ IdleUserMark
    /\ IdleBookmark
    /\ srcNote = [db \in Sources |-> <<>>]
    /\ Note = TagNotes
    /\ note_mapping = (<<1, 1>> :> 1) @@ (<<2, 1>> :> 2)
    /\ note_pc = "done"
    /\ note_nchoices = 0
    /\ note_ignored = {}
    /\ note_named = EmptyMap
    /\ note_both = {}
    /\ note_picked = {}
    /\ note_unchosen = {}
    /\ srcTag \in [Sources -> SrcTagTables]
    /\ srcTagMap \in [Sources -> SrcTagMapTables]
    /\ item_id_map \in ItemIdMaps
    /\ Tag = {}
    /\ TagMap = {}
    /\ MergeMapping_Tag = {}
    /\ MergeMapping_TagMap = {}
    /\ tag_id_map = EmptyMap
    /\ tagmap_id_map = EmptyMap
    /\ max_tag_id = 0
    /\ max_tagmap_id = 0
    /\ tag_pc = "idle"
    /\ tag_i = 1
    /\ tag_nchoices = 0
    /\ tag_applied = <<>>
    /\ tag_run = 1
    /\ tag_saved = [Tag |-> {}, TagMap |-> {}, MergeMapping_Tag |-> {},
                    MergeMapping_TagMap |-> {}]
    /\ tag_raised = FALSE

NextTag ==
    \/ TagEnter
    \/ TagRow
    \/ TagMapEnter
    \/ TagMapRow
    \/ TagReturn
    \/ ApplyEnter
    \/ \E e \in ApplyChoiceEntries : ApplyChoice(e)
    \/ ApplyReturn

SpecTag == InitTag /\ [][NextTag]_vars

\* merge_data from its first call of merge_tags_and_tagmap, made with the empty
\* item_id_map, to the return of its second call.
\* What merge_notes returned: the note 1 of each source is a merged note of its
\* own, or the two are identical and share merged note 1.
TagNoteMappings ==
    {(<<1, 1>> :> 1) @@ (<<2, 1>> :> 2), (<<1, 1>> :> 1) @@ (<<2, 1>> :> 1)}

\* The rows (without the key) the source TagMap tables draw from when both
\* calls are followed: a note, a note and a playlist item, a playlist item, a
\* location.
TMTemplatesTwice == {TMBase,
                     [TMBase EXCEPT !.PlaylistItemId = 1],
                     [TMBase EXCEPT !.NoteId = NULL, !.PlaylistItemId = 1],
                     [TMBase EXCEPT !.NoteId = NULL, !.LocationId = 1]}

SrcTagMapTablesTwice ==
    {[i \in 1..Len(ts) |-> TMRowOf(i, ts[i])] : ts \in SeqsUpTo(TMTemplatesTwice, MaxTagMapRows)}

InitTagTwice ==
    /\ IdleLater
    /\ location_id_map = LocMapPartial
    /\ srcLocation = [db \in Sources |-> <<>>]
    /\ Location = LocationOfIds(MapRange(location_id_map))
    /\ MergeMapping_Location =
          {[SourceDb |-> k[1], OldID |-> k[2], NewID |-> location_id_map[k]] :
              k \in DOMAIN location_id_map}
    /\ current_max_id = MaxOf(MapRange(location_id_map))
    /\ loc_pc = "done"
    /\ loc_i = 1
    /\ loc_run = MaxLocRuns
    /\ loc_first_map = location_id_map
    /\ loc_inserted = 0
    /\ IdleUserMark
    /\ IdleBookmark
    /\ srcNote = [db \in Sources |-> <<>>]
    /\ note_mapping \in TagNoteMappings
    /\ Note = {n \in TagNotes : n.NoteId \in MapRange(note_mapping)}
    /\ note_pc = "done"
    /\ note_nchoices = 0
    /\ note_ignored = {}
    /\ note_named = EmptyMap
    /\ note_both = {}
    /\ note_picked = {}
    /\ note_unchosen = {}
    /\ srcTag \in [Sources -> SrcTagTables]
    /\ srcTagMap \in [Sources -> SrcTagMapTablesTwice]
    /\ item_id_map = EmptyMap
    /\ Tag = {}
    /\ TagMap = {}
    /\ MergeMapping_Tag = {}
    /\ MergeMapping_TagMap = {}
    /\ tag_id_map = EmptyMap
    /\ tagmap_id_map = EmptyMap
    /\ max_tag_id = 0
    /\ max_tagmap_id = 0
    /\ tag_pc = "idle"
    /\ tag_i = 1
    /\ tag_nchoices = 0
    /\ tag_applied = <<>>
    /\ tag_run = 1
    /\ tag_saved = [Tag |-> {}, TagMap |-> {}, MergeMapping_Tag |-> {},
                    MergeMapping_TagMap |-> {}]
    /\ tag_raised = FALSE

NextTagTwice ==
    \/ TagEnter
    \/ TagRow
    \/ TagMapEnter
    \/ TagMapRow
    \/ TagReturn
    \/ ApplyEnter
    \/ \E e \in ApplyChoiceEntries : ApplyChoice(e)
    \/ ApplyReturn
    \/ TagEnterAgain

SpecTagTwice == InitTagTwice /\ [][NextTagTwice]_vars

\* =============================================================== Playlists
\* merge_data from its PlaylistItem clean-up to the last
\* cleanup_playlist_item_location_map, with merge_playlists in between.
\* PlaylistItem rows carry Label; the five other columns of the content key
\* are held at one value.  The map rows carry the two id columns.
MaxPlRows == 2

MaxPlMapRows == 1

\* the text ''
EmptyText == 0

PlLabels == {NULL, EmptyText, 1}

PlRowOf(id, label) == [PlaylistItemId |-> id, Label |-> label]

SrcPlaylistItemTables ==
    {[i \in 1..Len(ls) |-> PlRowOf(i, ls[i])] : ls \in SeqsUpTo(PlLabels, MaxPlRows)}

SrcLocationMapTables ==
    SeqsUpTo({[PlaylistItemId |-> 1, LocationId |-> 1],
              [PlaylistItemId |-> 1, LocationId |-> 2],
              [PlaylistItemId |-> 2, LocationId |-> 1]}, MaxPlMapRows)

SrcIndependentMediaMapTables ==
    SeqsUpTo({[PlaylistItemId |-> 1, IndependentMediaId |-> 1],
              [PlaylistItemId |-> 2, IndependentMediaId |-> 1]}, MaxPlMapRows)

\* What merge_independent_media returned: every source medium is mapped.
IndependentMediaMapFull == (<<1, 1>> :> 1) @@ (<<2, 1>> :> 2)

\* merge_other_tables on one table, first being columns[0] and rest the set
\* columns[1:]: a source row for which SELECT 1 FROM table WHERE c1=? AND c2=? ...
\* finds nothing is inserted with MAX(first column) + 1.
RECURSIVE OtherTableRows(_, _, _, _)
OtherTableRows(T, rows, first, rest) ==
    IF rows = <<>> THEN T
    ELSE LET row == Head(rows)
             exists == rest # {} /\ \E x \in T : \A c \in rest : SqlEq(x[c], row[c])
             new_id == MaxOf({x[first] : x \in T}) + 1
         IN OtherTableRows(IF exists THEN T ELSE T \cup {[row EXCEPT ![first] = new_id]},
                           Tail(rows), first, rest)

\* merge_other_tables: file1's rows, then file2's.
merge_other_tables(src, first, rest) ==
    OtherTableRows(OtherTableRows({}, src[1], first, rest), src[2], first, rest)

\* safe_text
safe_text(val) == IF val = NULL THEN EmptyText ELSE val

\* generate_full_key over the normalised Label
generate_full_key(label) == safe_text(label)

\* all_items = read_playlist_items(file1_db) + read_playlist_items(file2_db)
all_items ==
    [k \in 1..(Len(srcPlaylistItem[1]) + Len(srcPlaylistItem[2])) |->
        IF k <= Len(srcPlaylistItem[1])
        THEN [db |-> 1, row |-> srcPlaylistItem[1][k]]
        ELSE [db |-> 2, row |-> srcPlaylistItem[2][k - Len(srcPlaylistItem[1])]]]

\* the PlaylistItemIds that PlaylistItemLocationMap or
\* PlaylistItemIndependentMediaMap holds
PlMappedItems(LM, IM) ==
    {r.PlaylistItemId : r \in LM} \cup {r.PlaylistItemId : r \in IM}

\* DELETE FROM PlaylistItem WHERE PlaylistItemId NOT IN (the two maps)
PlOrphansDeleted(P, LM, IM) == {p \in P : p.PlaylistItemId \in PlMappedItems(LM, IM)}

plLeft == <<srcPlaylistItem, srcPlaylistItemLocationMap, srcPlaylistItemIndependentMediaMap,
            independent_media_map>>

\* merge_data step 12: the orphan PlaylistItem rows are deleted.
PlOrphanDelete ==
    /\ pl_pc = "cleanup"
    /\ PlaylistItem' = PlOrphansDeleted(PlaylistItem, PlaylistItemLocationMap,
                                        PlaylistItemIndependentMediaMap)
    /\ pl_pc' = "call"
    /\ UNCHANGED <<plLeft, PlaylistItemLocationMap, PlaylistItemIndependentMediaMap,
                   MergeMapping_PlaylistItem, pl_item_id_map, existing_items, pl_i>>
    /\ UNCHANGED notPl

\* merge_playlists calls merge_playlist_items, which reads all_items.
PlItemsEnter ==
    /\ pl_pc = "call"
    /\ pl_pc' = "items"
    /\ pl_item_id_map' = EmptyMap
    /\ existing_items' = EmptyMap
    /\ pl_i' = 1
    /\ UNCHANGED <<plLeft, PlaylistItem, PlaylistItemLocationMap,
                   PlaylistItemIndependentMediaMap, MergeMapping_PlaylistItem>>
    /\ UNCHANGED notPl

\* One iteration of the loop of merge_playlist_items.
PlItemRow ==
    /\ pl_pc = "items" /\ pl_i <= Len(all_items)
    /\ LET db == all_items[pl_i].db
           r == all_items[pl_i].row
           key == generate_full_key(r.Label)
           res == {m \in MergeMapping_PlaylistItem :
                      m.SourceDb = db /\ m.OldItemId = r.PlaylistItemId}
       IN IF res # {}
          THEN LET new_id == (CHOOSE m \in res : TRUE).NewItemId
               IN /\ pl_item_id_map' = (<<db, r.PlaylistItemId>> :> new_id) @@ pl_item_id_map
                  /\ existing_items' = IF key \in DOMAIN existing_items THEN existing_items
                                       ELSE (key :> new_id) @@ existing_items
                  /\ UNCHANGED <<PlaylistItem, MergeMapping_PlaylistItem>>
          ELSE LET known == key \in DOMAIN existing_items
                   new_id == IF known THEN existing_items[key]
                             ELSE MaxOf({p.PlaylistItemId : p \in PlaylistItem}) + 1
               IN /\ PlaylistItem' = IF known THEN PlaylistItem
                                     ELSE PlaylistItem \cup {PlRowOf(new_id, r.Label)}
                  /\ existing_items' = (key :> new_id) @@ existing_items
                  /\ MergeMapping_PlaylistItem' =
                         MergeMapping_PlaylistItem \cup
                             {[SourceDb |-> db, OldItemId |-> r.PlaylistItemId,
                               NewItemId |-> new_id]}
                  /\ pl_item_id_map' = (<<db, r.PlaylistItemId>> :> new_id) @@ pl_item_id_map
    /\ pl_i' = pl_i + 1
    /\ UNCHANGED <<plLeft, PlaylistItemLocationMap, PlaylistItemIndependentMediaMap, pl_pc>>
    /\ UNCHANGED notPl

\* merge_playlist_items returns its mapping to merge_playlists.
PlItemsReturn ==
    /\ pl_pc = "items" /\ pl_i > Len(all_items)
    /\ pl_pc' = "media"
    /\ UNCHANGED <<plLeft, PlaylistItem, PlaylistItemLocationMap,
                   PlaylistItemIndependentMediaMap, MergeMapping_PlaylistItem,
                   pl_item_id_map, existing_items, pl_i>>
    /\ UNCHANGED notPl

\* the rows of both sources' map table, each with the source it came from
PlMapRows(src) ==
    {[db |-> x[1], row |-> src[x[1]][x[2]]] :
        x \in {y \in Sources \X (1..MaxPlMapRows) : y[2] <= Len(src[y[1]])}}

\* merge_playlist_item_independent_media_map: the table is emptied and rebuilt
\* from the source rows whose two ids are mapped.
PlIndependentMediaMap ==
    /\ pl_pc = "media"
    /\ PlaylistItemIndependentMediaMap' =
           {[PlaylistItemId |-> pl_item_id_map[<<e.db, e.row.PlaylistItemId>>],
             IndependentMediaId |-> independent_media_map[<<e.db, e.row.IndependentMediaId>>]] :
               e \in {x \in PlMapRows(srcPlaylistItemIndependentMediaMap) :
                        /\ <<x.db, x.row.PlaylistItemId>> \in DOMAIN pl_item_id_map
                        /\ <<x.db, x.row.IndependentMediaId>> \in DOMAIN independent_media_map}}
    /\ pl_pc' = "location"
    /\ UNCHANGED <<plLeft, PlaylistItem, PlaylistItemLocationMap, MergeMapping_PlaylistItem,
                   pl_item_id_map, existing_items, pl_i>>
    /\ UNCHANGED notPl

\* DELETE FROM PlaylistItemLocationMap WHERE PlaylistItemId NOT IN PlaylistItem
cleanup_playlist_item_location_map(LM, P) ==
    {r \in LM : r.PlaylistItemId \in {p.PlaylistItemId : p \in P}}

\* merge_playlist_item_location_map, then the clean-up merge_playlists runs
\* after it; merge_playlists returns.
PlLocationMap ==
    /\ pl_pc = "location"
    /\ LET LM == {[PlaylistItemId |-> pl_item_id_map[<<e.db, e.row.PlaylistItemId>>],
                   LocationId |-> location_id_map[<<e.db, e.row.LocationId>>]] :
                    e \in {x \in PlMapRows(srcPlaylistItemLocationMap) :
                             /\ <<x.db, x.row.PlaylistItemId>> \in DOMAIN pl_item_id_map
                             /\ <<x.db, x.row.LocationId>> \in DOMAIN location_id_map}}
       IN PlaylistItemLocationMap' = cleanup_playlist_item_location_map(LM, PlaylistItem)
    /\ pl_pc' = "merged"
    /\ UNCHANGED <<plLeft, PlaylistItem, PlaylistItemIndependentMediaMap,
                   MergeMapping_PlaylistItem, pl_item_id_map, existing_items, pl_i>>
    /\ UNCHANGED notPl

\* update_location_references on PlaylistItemLocationMap: a row at old_loc
\* moves to new_loc unless the item already has a row at new_loc.
RECURSIVE PlUpdateLocations(_, _)
PlUpdateLocations(LM, i) ==
    IF i > Len(location_replacements_flat) THEN LM
    ELSE LET old_loc == location_replacements_flat[i].old_loc
             new_loc == location_replacements_flat[i].new_loc
             conflict(r) == \E x \in LM : /\ x.PlaylistItemId = r.PlaylistItemId
                                          /\ x.LocationId = new_loc
         IN PlUpdateLocations(
                {IF r.LocationId = old_loc /\ ~conflict(r)
                 THEN [r EXCEPT !.LocationId = new_loc] ELSE r : r \in LM}, i + 1)

\* merge_data after merge_playlists: update_location_references, then
\* cleanup_playlist_item_location_map; no later statement writes the three
\* tables.
PlAfter ==
    /\ pl_pc = "merged"
    /\ PlaylistItemLocationMap' =
           cleanup_playlist_item_location_map(PlUpdateLocations(PlaylistItemLocationMap, 1),
                                              PlaylistItem)
    /\ pl_pc' = "done"
    /\ UNCHANGED <<plLeft, PlaylistItem, PlaylistItemIndependentMediaMap,
                   MergeMapping_PlaylistItem, pl_item_id_map, existing_items, pl_i>>
    /\ UNCHANGED notPl

\* merge_data has run merge_other_tables and stands before its clean-up of
\* PlaylistItem, a table no earlier step writes.
InitPlaylist ==
    /\ srcPlaylistItem \in [Sources -> SrcPlaylistItemTables]
    /\ srcPlaylistItemLocationMap \in [Sources -> SrcLocationMapTables]
    /\ srcPlaylistItemIndependentMediaMap \in [Sources -> SrcIndependentMediaMapTables]
    /\ PlaylistItem = {}
    /\ PlaylistItemLocationMap =
           merge_other_tables(srcPlaylistItemLocationMap, "PlaylistItemId", {"LocationId"})
    /\ PlaylistItemIndependentMediaMap =
           merge_other_tables(srcPlaylistItemIndependentMediaMap, "PlaylistItemId",
                              {"IndependentMediaId"})
    /\ MergeMapping_PlaylistItem = {}
    /\ independent_media_map = IndependentMediaMapFull
    /\ pl_item_id_map = EmptyMap
    /\ existing_items = EmptyMap
    /\ pl_pc = "cleanup"
    /\ pl_i = 1
    /\ location_id_map \in LocMaps
    /\ srcLocation = [db \in Sources |-> <<>>]
    /\ Location = LocationOfIds(MapRange(location_id_map))
    /\ MergeMapping_Location =
          {[SourceDb |-> k[1], OldID |-> k[2], NewID |-> location_id_map[k]] :
              k \in DOMAIN location_id_map}
    /\ current_max_id = MaxOf(MapRange(location_id_map))
    /\ loc_pc = "done"
    /\ loc_i = 1
    /\ loc_run = MaxLocRuns
    /\ loc_first_map = location_id_map
    /\ loc_inserted = 0
    /\ IdleUserMark
    /\ IdleNote
    /\ IdleBookmark
    /\ IdleTag
    /\ IdleMergeData
    /\ IdleBlockRange
    /\ IdleOther
    /\ IdleMarker

NextPlaylist ==
    \/ PlOrphanDelete
    \/ PlItemsEnter
    \/ PlItemRow
    \/ PlItemsReturn
    \/ PlIndependentMediaMap
    \/ PlLocationMap
    \/ PlAfter

SpecPlaylist == InitPlaylist /\ [][NextPlaylist]_vars

\* ============================================================== merge_data
\* The /merge handler from its first statement to its response, on the names
\* of the tables, the marker file and the output file; the three download
\* handlers run beside it.
MaxMerges == 2
MaxBrRows == 1
MaxOtRows == 2
MaxOtRuns == 2
MaxHlRows == 1
MaxMkRows == 2

\* The tables every source file of the model holds.
CoreTables == {"Location", "UserMark", "BlockRange", "Tag", "TagMap", "IndependentMedia",
               "PlaylistItem", "PlaylistItemLocationMap", "PlaylistItemIndependentMediaMap",
               "InputField", "LastModified", "Bookmark", "Note"}

SrcSchemas == {CoreTables,
               CoreTables \ {"Bookmark"},
               CoreTables \ {"Note"},
               CoreTables \cup {"PlaylistItemMediaMap"},
               CoreTables \cup {"mergemapping_old"},
               CoreTables \cup {"Extra"}}

\* required_tables of verify_schema
required_tables == {"Bookmark", "Location", "UserMark", "Note"}

\* exclude_tables of the merge_other_tables call
exclude_tables == {"Note", "UserMark", "Location", "BlockRange", "LastModified", "Tag",
                   "TagMap", "PlaylistItem", "InputField", "Bookmark", "android_metadata",
                   "grdb_migrations"}

\* The names LOWER(name) LIKE 'mergemapping_%' selects.
LowerLikeMergeMapping(name) ==
    name \in {"MergeMapping_Location", "MergeMapping_UserMark", "MergeMapping_Bookmark",
              "MergeMapping_Tag", "MergeMapping_TagMap", "MergeMapping_PlaylistItem",
              "MergeMapping_PlaylistItemMarker", "MergeMapping_InputField",
              "mergemapping_old"}

\* The names a case-sensitive prefix test would select.
MergeMappingDropped_ExactCase(T) == {t \in T : ~(LowerLikeMergeMapping(t) /\ t # "mergemapping_old")}

\* The tables left once every selected name is dropped.
MergeMappingDropped(T) == {t \in T : ~LowerLikeMergeMapping(t)}

\* create_merged_schema: file1's tables, LastModified rebuilt,
\* PlaylistItemMediaMap created when file1 lacks it.
create_merged_schema(base) ==
    (base \ {"LastModified"}) \cup {"LastModified", "PlaylistItemMediaMap"}

\* verify_schema
verify_schema(db) == required_tables \subseteq md_src_tables[db]

NoResponse == [code |-> 0, error |-> "none"]

NoOutcomes == [blockrange |-> "none", quick_check |-> "none", integrity |-> "none"]

\* A statement sequence of merge_data that runs through: the tables and the
\* set of mergers that have written change, the position moves on.
MdStep(from, to, tables, ran) ==
    /\ md_pc = from
    /\ md_pc' = to
    /\ md_tables' = tables
    /\ md_ran' = md_ran \cup ran
    /\ UNCHANGED <<md_src_tables, md_highlights, merge_in_progress, out_file, md_run, md_response,
                   md_outcomes, dl_pc, dl_last>>
    /\ UNCHANGED notMd

\* merge_data returns an error response, or an exception leaves it for
\* handle_exception; the marker file stays.
MdError(from, code, error) ==
    /\ md_pc = from
    /\ md_pc' = "idle"
    /\ md_response' = [code |-> code, error |-> error]
    /\ UNCHANGED <<md_src_tables, md_highlights, md_tables, merge_in_progress, out_file, md_run, md_ran,
                   md_outcomes, dl_pc, dl_last>>
    /\ UNCHANGED notMd

\* A /merge request arrives: the marker file is created.
MdEnter ==
    /\ md_pc = "idle" /\ md_run < MaxMerges
    /\ md_pc' = "read"
    /\ md_run' = md_run + 1
    /\ merge_in_progress' = TRUE
    /\ md_ran' = {}
    /\ md_response' = NoResponse
    /\ md_outcomes' = NoOutcomes
    /\ UNCHANGED <<md_src_tables, md_highlights, md_tables, out_file, dl_pc, dl_last>>
    /\ UNCHANGED notMd

\* The UserMark rows of a source as read_notes_and_highlights returns them:
\* (UserMarkId, ColorIndex, LocationId, StyleIndex, UserMarkGuid, Version).
HlTemplates == {[UserMarkId |-> 1, ColorIndex |-> c, LocationId |-> 1, StyleIndex |-> 0,
                 UserMarkGuid |-> 1, Version |-> 1] : c \in 1..2}

SrcHighlights == SeqsUpTo(HlTemplates, MaxHlRows)

\* The value merged_highlights_dict keeps for a row.
HlTuple(h) == <<h.ColorIndex, h.LocationId, h.StyleIndex, h.Version>>

\* merged_highlights_dict after the loop over highlights_db1
RECURSIVE HlDictOf(_, _)
HlDictOf(dict, rows) ==
    IF rows = <<>> THEN dict
    ELSE HlDictOf((Head(rows).UserMarkGuid :> HlTuple(Head(rows))) @@ dict, Tail(rows))

\* The loop over highlights_db2: TRUE when it reaches the lookup of
\* conflict_choices_highlights, a name the module never binds.
RECURSIVE HlPreScanRaises(_, _)
HlPreScanRaises(dict, rows) ==
    IF rows = <<>> THEN FALSE
    ELSE LET h == Head(rows)
         IN  IF h.UserMarkGuid \notin DOMAIN dict
             THEN HlPreScanRaises((h.UserMarkGuid :> HlTuple(h)) @@ dict, Tail(rows))
             ELSE IF dict[h.UserMarkGuid] = HlTuple(h)
                  THEN HlPreScanRaises(dict, Tail(rows))
                  ELSE TRUE

\* Both sources can be read by read_notes_and_highlights.
MdReadable == \A db \in Sources : {"Note", "UserMark"} \subseteq md_src_tables[db]

\* read_notes_and_highlights reads Note and UserMark of each source and the
\* pre-scan of the highlights runs through.
MdPreScan ==
    /\ MdReadable
    /\ ~HlPreScanRaises(HlDictOf(EmptyMap, md_highlights[1]), md_highlights[2])
    /\ MdStep("read", "schema", md_tables, {})

\* The pre-scan meets a GUID of file1 with another tuple: NameError leaves
\* merge_data for handle_exception.
MdPreScanRaises ==
    /\ MdReadable
    /\ HlPreScanRaises(HlDictOf(EmptyMap, md_highlights[1]), md_highlights[2])
    /\ MdError("read", 500, "NameError")

\* The old merged database is removed and create_merged_schema builds the
\* new one.
MdCreateSchema ==
    MdStep("schema", "location", create_merged_schema(md_src_tables[1]), {})

\* A source without Note: the SELECT of read_notes_and_highlights raises.
MdReadFails ==
    /\ ~MdReadable
    /\ MdError("read", 500, "no such table")

\* merge_location_from_sources and merge_independent_media
MdLocation ==
    MdStep("location", "usermark", md_tables \cup {"MergeMapping_Location"},
           {"Location", "IndependentMedia"})

\* merge_usermark_from_sources, the LastModified row, create_note_mapping
MdUserMark ==
    MdStep("usermark", "verify", md_tables \cup {"MergeMapping_UserMark"}, {"UserMark"})

\* verify_schema passes on both sources; merge_bookmarks runs.
MdBookmarks ==
    /\ \A db \in Sources : verify_schema(db)
    /\ MdStep("verify", "blockrange", md_tables \cup {"MergeMapping_Bookmark"}, {"Bookmark"})

\* verify_schema misses a required table in a source.
MdSchemaError ==
    /\ \E db \in Sources : ~verify_schema(db)
    /\ MdError("verify", 400, "Schema incompatible")

\* What merge_blockrange_from_two_sources can meet.
BlockRangeOutcomes == {"ok", "integrity error", "source read failed", "commit failed"}

\* The function reporting a failed commit as success.
merge_blockrange_from_two_sources_CommitIgnored(outcome) ==
    outcome \in {"ok", "commit failed"}

\* merge_blockrange_from_two_sources returns False on every outcome but ok.
merge_blockrange_from_two_sources(outcome) == outcome = "ok"

\* merge_blockrange_from_two_sources is called; False ends merge_data with the
\* BlockRange error response.
MdBlockRange(outcome) ==
    /\ md_pc = "blockrange"
    /\ md_outcomes' = [md_outcomes EXCEPT !.blockrange = outcome]
    /\ md_ran' = md_ran \cup {"BlockRange"}
    /\ IF merge_blockrange_from_two_sources(outcome)
       THEN /\ md_pc' = "notes"
            /\ UNCHANGED md_response
       ELSE /\ md_pc' = "idle"
            /\ md_response' = [code |-> 500, error |-> "BlockRange merge failed"]
    /\ UNCHANGED <<md_src_tables, md_highlights, md_tables, merge_in_progress, out_file, md_run, dl_pc,
                   dl_last>>
    /\ UNCHANGED notMd

\* merge_notes, merge_tags_and_tagmap, apply_selected_tags
MdNotesTags ==
    MdStep("notes", "other", md_tables \cup {"MergeMapping_Tag", "MergeMapping_TagMap"},
           {"Note", "Tag"})

\* merge_other_tables creates the tables of either source the merged database
\* lacks, the excluded ones apart; merge_platform_metadata follows.
MdOtherTables ==
    MdStep("other", "checks",
           md_tables \cup ((md_src_tables[1] \cup md_src_tables[2]) \ exclude_tables),
           {"Other"})

\* What PRAGMA quick_check can report.
QuickCheckResults == {"ok", "corrupt"}

\* The PlaylistItem clean-up, REINDEX, PRAGMA quick_check and
\* foreign_key_check, the WAL switch: the result is logged.
MdChecks(result) ==
    /\ md_pc = "checks"
    /\ md_pc' = "playlists"
    /\ md_outcomes' = [md_outcomes EXCEPT !.quick_check = result]
    /\ UNCHANGED <<md_src_tables, md_highlights, md_tables, merge_in_progress, out_file, md_run, md_ran,
                   md_response, dl_pc, dl_last>>
    /\ UNCHANGED notMd

\* merge_playlists returns its quick_check result, or "error" after an
\* exception; merge_tags_and_tagmap again, merge_inputfields,
\* update_location_references, cleanup_playlist_item_location_map.
MdPlaylists(result) ==
    /\ md_pc = "playlists"
    /\ md_pc' = "drop"
    /\ md_outcomes' = [md_outcomes EXCEPT !.integrity = result]
    /\ md_tables' = md_tables \cup {"MergeMapping_PlaylistItem", "MergeMapping_PlaylistItemMarker",
                                    "MergeMapping_Tag", "MergeMapping_TagMap",
                                    "MergeMapping_InputField"}
    /\ md_ran' = md_ran \cup {"Playlists", "Tag", "InputField"}
    /\ UNCHANGED <<md_src_tables, md_highlights, merge_in_progress, out_file, md_run, md_response, dl_pc,
                   dl_last>>
    /\ UNCHANGED notMd

\* The MergeMapping_* tables are dropped.
MdDropMappings ==
    MdStep("drop", "vacuum", MergeMappingDropped(md_tables), {})

\* DROP TABLE IF EXISTS PlaylistItemMediaMap, VACUUM INTO the cleaned file,
\* shutil.copy to debug_cleaned_before_copy.db.  A copy that fails has written
\* part of the file and the exception ends the request.
MdVacuum(copied) ==
    /\ md_pc = "vacuum"
    /\ md_tables' = md_tables \ {"PlaylistItemMediaMap"}
    /\ out_file' = [exists |-> TRUE, tables |-> md_tables', run |-> md_run, whole |-> copied]
    /\ IF copied
       THEN /\ md_pc' = "finish"
            /\ UNCHANGED md_response
       ELSE /\ md_pc' = "idle"
            /\ md_response' = [code |-> 500, error |-> "Erreur dans merge_data"]
    /\ UNCHANGED <<md_src_tables, md_highlights, merge_in_progress, md_run, md_ran, md_outcomes, dl_pc,
                   dl_last>>
    /\ UNCHANGED notMd

\* The WAL switch on the output file, the last look at its tables, the
\* marker file removed, the 200 response.
MdFinish ==
    /\ md_pc = "finish"
    /\ md_pc' = "idle"
    /\ merge_in_progress' = FALSE
    /\ md_response' = [code |-> 200, error |-> "none"]
    /\ UNCHANGED <<md_src_tables, md_highlights, md_tables, out_file, md_run, md_ran, md_outcomes, dl_pc,
                   dl_last>>
    /\ UNCHANGED notMd

\* send_file of the output file as it is now.
DlSend(endpoint) ==
    dl_last' = [endpoint |-> endpoint, in_progress |-> merge_in_progress,
                whole |-> out_file.whole, run |-> out_file.run]

\* /download_debug_db: the file exists, it is sent.
download_debug_db ==
    /\ out_file.exists
    /\ DlSend("/download_debug_db")
    /\ UNCHANGED <<md_src_tables, md_highlights, md_tables, merge_in_progress, out_file, md_pc, md_run,
                   md_ran, md_response, md_outcomes, dl_pc>>
    /\ UNCHANGED notMd

\* /download/debug: the file exists, it is sent.
download_debug_copy ==
    /\ out_file.exists
    /\ DlSend("/download/debug")
    /\ UNCHANGED <<md_src_tables, md_highlights, md_tables, merge_in_progress, out_file, md_pc, md_run,
                   md_ran, md_response, md_outcomes, dl_pc>>
    /\ UNCHANGED notMd

\* /download/<filename>, first half: the marker file is absent, the name is
\* allowed and the file exists.
download_file_checked ==
    /\ dl_pc = "idle"
    /\ ~merge_in_progress
    /\ out_file.exists
    /\ dl_pc' = "send"
    /\ UNCHANGED <<md_src_tables, md_highlights, md_tables, merge_in_progress, out_file, md_pc, md_run,
                   md_ran, md_response, md_outcomes, dl_last>>
    /\ UNCHANGED notMd

\* /download/<filename>, second half: send_file.
download_file_send ==
    /\ dl_pc = "send"
    /\ dl_pc' = "idle"
    /\ IF out_file.exists THEN DlSend("/download/<filename>") ELSE UNCHANGED dl_last
    /\ UNCHANGED <<md_src_tables, md_highlights, md_tables, merge_in_progress, out_file, md_pc, md_run,
                   md_ran, md_response, md_outcomes>>
    /\ UNCHANGED notMd

\* Two source files are uploaded and extracted; nothing has been merged.
InitMergeData ==
    /\ md_src_tables \in [Sources -> SrcSchemas]
    /\ md_highlights \in [Sources -> SrcHighlights]
    /\ md_tables = {}
    /\ merge_in_progress = FALSE
    /\ out_file = [exists |-> FALSE, tables |-> {}, run |-> 0, whole |-> FALSE]
    /\ md_pc = "idle"
    /\ md_run = 0
    /\ md_ran = {}
    /\ md_response = NoResponse
    /\ md_outcomes = NoOutcomes
    /\ dl_pc = "idle"
    /\ dl_last = [endpoint |-> "none", in_progress |-> FALSE, whole |-> TRUE, run |-> 0]
    /\ srcLocation = [db \in Sources |-> <<>>]
    /\ Location = {}
    /\ MergeMapping_Location = {}
    /\ location_id_map = EmptyMap
    /\ current_max_id = 0
    /\ loc_pc = "idle"
    /\ loc_i = 1
    /\ loc_run = 0
    /\ loc_first_map = EmptyMap
    /\ loc_inserted = 0
    /\ IdleUserMark
    /\ IdleNote
    /\ IdleBookmark
    /\ IdleTag
    /\ IdlePlaylist
    /\ IdleBlockRange
    /\ IdleOther
    /\ IdleMarker

NextMergeData ==
    \/ MdEnter
    \/ MdPreScan
    \/ MdPreScanRaises
    \/ MdCreateSchema
    \/ MdReadFails
    \/ MdLocation
    \/ MdUserMark
    \/ MdBookmarks
    \/ MdSchemaError
    \/ \E outcome \in BlockRangeOutcomes : MdBlockRange(outcome)
    \/ MdNotesTags
    \/ MdOtherTables
    \/ \E result \in QuickCheckResults : MdChecks(result)
    \/ \E result \in QuickCheckResults \cup {"error"} : MdPlaylists(result)
    \/ MdDropMappings
    \/ \E copied \in BOOLEAN : MdVacuum(copied)
    \/ MdFinish
    \/ download_debug_db
    \/ download_debug_copy
    \/ download_file_checked
    \/ download_file_send

SpecMergeData == InitMergeData /\ [][NextMergeData]_vars

\* ============================================================== BlockRange
BRBase == [BlockType |-> 1, Identifier |-> 1, StartToken |-> 0, EndToken |-> 5,
           UserMarkId |-> 1]

\* The rows (without the key) the source BlockRange tables draw from; UserMarkId 3
\* names no row of a source UserMark table.
BRTemplates == {BRBase,
                [BRBase EXCEPT !.UserMarkId = 2],
                [BRBase EXCEPT !.UserMarkId = 3],
                [BRBase EXCEPT !.StartToken = NULL]}

BRRowOf(id, t) == [BlockRangeId |-> id] @@ t

SrcBlockRangeTables ==
    {[i \in 1..Len(ts) |-> BRRowOf(i, ts[i])] : ts \in SeqsUpTo(BRTemplates, MaxBrRows)}

\* {guid: uid for uid, guid in SELECT UserMarkId, UserMarkGuid FROM UserMark}: rows come
\* in UserMarkId order and a later row replaces the entry of an earlier one.
BRGuidMap ==
    [g \in {r.UserMarkGuid : r \in UserMark} |->
        MaxOf({r.UserMarkId : r \in {x \in UserMark : x.UserMarkGuid = g}})]

\* SELECT br.BlockType, br.Identifier, br.StartToken, br.EndToken, um.UserMarkGuid
\* FROM BlockRange br JOIN UserMark um ON br.UserMarkId = um.UserMarkId
BRJoin(db) ==
    {[br |-> srcBlockRange[db][i], UserMarkGuid |-> srcUserMark[db][j].UserMarkGuid] :
        <<i, j>> \in {p \in (1..Len(srcBlockRange[db])) \X (1..Len(srcUserMark[db])) :
                        SqlEq(srcBlockRange[db][p[1]].UserMarkId,
                              srcUserMark[db][p[2]].UserMarkId)}}

\* ORDER BY br.BlockType, br.Identifier: the rows that may come next.
BRFirst(rows) ==
    {r \in rows :
        \A o \in rows :
            \/ r.br.BlockType < o.br.BlockType
            \/ r.br.BlockType = o.br.BlockType /\ r.br.Identifier <= o.br.Identifier}

\* SELECT 1 FROM BlockRange WHERE BlockType=? AND Identifier=? AND UserMarkId=?
\* AND StartToken=? AND EndToken=?
BRExisting(br, new_usermark_id) ==
    {x \in BlockRange :
        /\ SqlEq(x.BlockType, br.BlockType)
        /\ SqlEq(x.Identifier, br.Identifier)
        /\ SqlEq(x.UserMarkId, new_usermark_id)
        /\ SqlEq(x.StartToken, br.StartToken)
        /\ SqlEq(x.EndToken, br.EndToken)}

\* usermark_guid_map.get(usermark_guid)
BRNewUserMarkId(db, row) ==
    IF row.UserMarkGuid \in DOMAIN br_usermark_guid_map
    THEN br_usermark_guid_map[row.UserMarkGuid] ELSE NULL

\* Entry of merge_blockrange_from_two_sources, up to the query on file1_db.
BREnter ==
    /\ um_pc = "done" /\ br_pc = "idle"
    /\ br_usermark_guid_map' = BRGuidMap
    /\ br_db' = 1
    /\ br_rows' = BRJoin(1)
    /\ br_pc' = "loop"
    /\ UNCHANGED <<srcBlockRange, BlockRange, br_merged>>
    /\ UNCHANGED notBr

\* Loop body for one joined source row.
BRRow ==
    /\ br_pc = "loop"
    /\ \E row \in BRFirst(br_rows) :
        LET new_usermark_id == BRNewUserMarkId(br_db, row)
            merged == [db |-> br_db, old |-> row.br.UserMarkId, new |-> new_usermark_id]
        IN  /\ br_rows' = br_rows \ {row}
            /\ IF new_usermark_id = NULL \/ new_usermark_id = 0
               THEN UNCHANGED <<BlockRange, br_merged>>
               ELSE IF BRExisting(row.br, new_usermark_id) # {}
               THEN /\ br_merged' = br_merged \cup {merged}
                    /\ UNCHANGED BlockRange
               ELSE /\ BlockRange' = BlockRange \cup
                          {[row.br EXCEPT
                              !.BlockRangeId = MaxOf({x.BlockRangeId : x \in BlockRange}) + 1,
                              !.UserMarkId = new_usermark_id]}
                    /\ br_merged' = br_merged \cup {merged}
    /\ UNCHANGED <<srcBlockRange, br_pc, br_usermark_guid_map, br_db>>
    /\ UNCHANGED notBr

\* End of the rows of file1_db: the query on file2_db.
BRNextSource ==
    /\ br_pc = "loop" /\ br_rows = {} /\ br_db = 1
    /\ br_db' = 2
    /\ br_rows' = BRJoin(2)
    /\ UNCHANGED <<srcBlockRange, BlockRange, br_pc, br_merged, br_usermark_guid_map>>
    /\ UNCHANGED notBr

\* End of the rows of file2_db: the single commit and return True.
BRReturn ==
    /\ br_pc = "loop" /\ br_rows = {} /\ br_db = 2
    /\ br_pc' = "done"
    /\ UNCHANGED <<srcBlockRange, BlockRange, br_merged, br_usermark_guid_map, br_db, br_rows>>
    /\ UNCHANGED notBr

InitBlockRange ==
    /\ IdlePlaylist
    /\ IdleMergeData
    /\ IdleOther
    /\ IdleMarker
    /\ location_id_map \in LocMaps
    /\ srcLocation = [db \in Sources |-> <<>>]
    /\ Location = LocationOfIds(MapRange(location_id_map))
    /\ MergeMapping_Location =
          {[SourceDb |-> k[1], OldID |-> k[2], NewID |-> location_id_map[k]] :
              k \in DOMAIN location_id_map}
    /\ current_max_id = MaxOf(MapRange(location_id_map))
    /\ loc_pc = "done"
    /\ loc_i = 1
    /\ loc_run = MaxLocRuns
    /\ loc_first_map = location_id_map
    /\ loc_inserted = 0
    /\ srcUserMark \in [Sources -> SrcUserMarkTables]
    /\ UserMark = {}
    /\ MergeMapping_UserMark = {}
    /\ um_mapping = EmptyMap
    /\ um_guid_mapping = EmptyMap
    /\ um_max_id = 0
    /\ um_pc = "idle"
    /\ um_i = 1
    /\ um_split = {}
    /\ uuid_n = 0
    /\ IdleNote
    /\ IdleBookmark
    /\ IdleTag
    /\ srcBlockRange \in [Sources -> SrcBlockRangeTables]
    /\ BlockRange = {}
    /\ br_pc = "idle"
    /\ br_merged = {}
    /\ br_usermark_guid_map = EmptyMap
    /\ br_db = 1
    /\ br_rows = {}

NextBlockRange ==
    \/ UMEnter
    \/ UMRow
    \/ UMReturn
    \/ BREnter
    \/ BRRow
    \/ BRNextSource
    \/ BRReturn

SpecBlockRange == InitBlockRange /\ [][NextBlockRange]_vars

\* ===================================================== merge_other_tables
\* The rows (without the key) a residual table of a source draws from.
OtTemplates == {[A |-> 1, B |-> 1], [A |-> 1, B |-> NULL], [A |-> 2, B |-> 1]}

OtRowOf(id, t) == [Id |-> id] @@ t

\* SELECT * FROM table, for every content of the source's table
SrcOtherTables ==
    {[i \in 1..Len(ts) |-> OtRowOf(i, ts[i])] : ts \in SeqsUpTo(OtTemplates, MaxOtRows)}

\* The rows of db1_path then of db2_path, as the loops visit them.
other_rows == srcOther[1] \o srcOther[2]

\* Entry of merge_other_tables up to the loop over the rows of the table.
OtEnter ==
    /\ ot_pc \in {"idle", "done"}
    /\ ot_run < MaxOtRuns
    /\ ot_run' = ot_run + 1
    /\ ot_first' = IF ot_run = 1 THEN Other ELSE ot_first
    /\ ot_pc' = "rows"
    /\ ot_i' = 1
    /\ UNCHANGED <<srcOther, Other>>
    /\ UNCHANGED notOt

\* Loop body for one source row: duplicate test, then INSERT.
OtRow ==
    /\ ot_pc = "rows" /\ ot_i <= Len(other_rows)
    /\ Other' = OtherTableRows(Other, <<other_rows[ot_i]>>, "Id", {"A", "B"})
    /\ ot_i' = ot_i + 1
    /\ UNCHANGED <<srcOther, ot_pc, ot_run, ot_first>>
    /\ UNCHANGED notOt

\* merged_conn.commit()
OtReturn ==
    /\ ot_pc = "rows" /\ ot_i > Len(other_rows)
    /\ ot_pc' = "done"
    /\ UNCHANGED <<srcOther, Other, ot_i, ot_run, ot_first>>
    /\ UNCHANGED notOt

\* The merged database has the table and no row of it.
InitOther ==
    /\ IdlePlaylist
    /\ IdleMergeData
    /\ IdleBlockRange
    /\ IdleMarker
    /\ location_id_map = EmptyMap
    /\ srcLocation = [db \in Sources |-> <<>>]
    /\ Location = {}
    /\ MergeMapping_Location = {}
    /\ current_max_id = 0
    /\ loc_pc = "idle"
    /\ loc_i = 1
    /\ loc_run = 0
    /\ loc_first_map = EmptyMap
    /\ loc_inserted = 0
    /\ IdleUserMark
    /\ IdleNote
    /\ IdleBookmark
    /\ IdleTag
    /\ srcOther \in [Sources -> SrcOtherTables]
    /\ Other = {}
    /\ ot_pc = "idle"
    /\ ot_i = 1
    /\ ot_run = 0
    /\ ot_first = {}

NextOther ==
    \/ OtEnter
    \/ OtRow
    \/ OtReturn

SpecOther == InitOther /\ [][NextOther]_vars

\* ======================================================= PlaylistItemMarker
\* The rows (without the key) the source PlaylistItemMarker tables draw from.
MkBase == [PlaylistItemId |-> 1, Label |-> "m", StartTimeTicks |-> 0, DurationTicks |-> 1,
           EndTransitionDurationTicks |-> 0]

MkTemplates == {MkBase, [MkBase EXCEPT !.StartTimeTicks = 5],
                [MkBase EXCEPT !.DurationTicks = 2]}

MkRowOf(id, t) == [PlaylistItemMarkerId |-> id] @@ t

SrcMarkerTables ==
    {[i \in 1..Len(ts) |-> MkRowOf(i, ts[i])] : ts \in SeqsUpTo(MkTemplates, MaxMkRows)}

\* item_id_map of merge_playlist_items for sources that hold one PlaylistItem
\* each: the two items are one merged item, or two, or file2's was not mapped.
MkItemIdMaps == {(<<1, 1>> :> 1) @@ (<<2, 1>> :> 1),
                 (<<1, 1>> :> 1) @@ (<<2, 1>> :> 2),
                 (<<1, 1>> :> 1)}

\* columns[1:] of PlaylistItemMarker
MkRest == {"PlaylistItemId", "Label", "StartTimeTicks", "DurationTicks",
           "EndTransitionDurationTicks"}

\* INSERT INTO PlaylistItemMarker raises IntegrityError.
MkIntegrityError(T, row) ==
    mk_unique /\ \E x \in T : /\ x.PlaylistItemId = row.PlaylistItemId
                               /\ x.StartTimeTicks = row.StartTimeTicks

\* The loop of merge_other_tables over one source's rows of PlaylistItemMarker,
\* no column of which is NULL: st.T is the merged table, st.raised says that an
\* INSERT raised, st.from records what was inserted for which source row.
RECURSIVE MkOtherRows(_, _, _)
MkOtherRows(st, db, rows) ==
    IF rows = <<>> \/ st.raised THEN st
    ELSE LET row == Head(rows)
             exists == \E x \in st.T : \A c \in MkRest : x[c] = row[c]
             new_id == MaxOf({x.PlaylistItemMarkerId : x \in st.T}) + 1
             new_row == [row EXCEPT !.PlaylistItemMarkerId = new_id]
         IN  IF exists THEN MkOtherRows(st, db, Tail(rows))
             ELSE IF MkIntegrityError(st.T, new_row)
             THEN [st EXCEPT !.raised = TRUE]
             ELSE MkOtherRows([T |-> st.T \cup {new_row},
                               from |-> st.from \cup
                                   {[db |-> db, old |-> row.PlaylistItemMarkerId,
                                     new |-> new_id, by |-> "merge_other_tables"]},
                               raised |-> FALSE],
                              db, Tail(rows))

\* merge_other_tables reaches PlaylistItemMarker, which merge_data does not
\* exclude: file1's rows, then file2's, one commit.  An IntegrityError leaves
\* the function and merge_data raises it again.
MkOtherTables ==
    /\ mk_pc = "idle"
    /\ LET st0 == [T |-> PlaylistItemMarker, from |-> mk_from, raised |-> FALSE]
           st == MkOtherRows(MkOtherRows(st0, 1, srcPlaylistItemMarker[1]),
                             2, srcPlaylistItemMarker[2])
       IN IF st.raised
          THEN /\ mk_pc' = "raised"
               /\ UNCHANGED <<PlaylistItemMarker, mk_from>>
          ELSE /\ mk_pc' = "other"
               /\ PlaylistItemMarker' = st.T
               /\ mk_from' = st.from
    /\ UNCHANGED <<srcPlaylistItemMarker, MergeMapping_PlaylistItemMarker, marker_id_map,
                   max_marker_id, mk_item_id_map, mk_unique, mk_db, mk_i>>
    /\ UNCHANGED notMk

\* Entry of merge_playlist_item_marker, called by merge_playlists:
\* SELECT COALESCE(MAX(PlaylistItemMarkerId), 0).
MkEnter ==
    /\ mk_pc = "other"
    /\ mk_pc' = "loop"
    /\ max_marker_id' = MaxOf({x.PlaylistItemMarkerId : x \in PlaylistItemMarker})
    /\ marker_id_map' = EmptyMap
    /\ mk_db' = 1
    /\ mk_i' = 1
    /\ UNCHANGED <<srcPlaylistItemMarker, PlaylistItemMarker, MergeMapping_PlaylistItemMarker,
                   mk_item_id_map, mk_unique, mk_from>>
    /\ UNCHANGED notMk

\* Loop body for one source row.
MkRow ==
    /\ mk_pc = "loop" /\ mk_i <= Len(srcPlaylistItemMarker[mk_db])
    /\ mk_i' = mk_i + 1
    /\ LET row == srcPlaylistItemMarker[mk_db][mk_i]
           key == <<mk_db, row.PlaylistItemMarkerId>>
           item == <<mk_db, row.PlaylistItemId>>
           res == {m \in MergeMapping_PlaylistItemMarker :
                      m.SourceDb = mk_db /\ m.OldMarkerId = row.PlaylistItemMarkerId}
           new_id == max_marker_id + 1
           new_row == [row EXCEPT !.PlaylistItemMarkerId = new_id,
                                  !.PlaylistItemId = mk_item_id_map[item]]
       IN IF item \notin DOMAIN mk_item_id_map
          THEN UNCHANGED <<PlaylistItemMarker, MergeMapping_PlaylistItemMarker, marker_id_map,
                           max_marker_id, mk_from>>
          ELSE IF res # {}
          THEN /\ marker_id_map' = (key :> (CHOOSE m \in res : TRUE).NewMarkerId) @@ marker_id_map
               /\ UNCHANGED <<PlaylistItemMarker, MergeMapping_PlaylistItemMarker,
                              max_marker_id, mk_from>>
          ELSE /\ max_marker_id' = new_id
               /\ IF MkIntegrityError(PlaylistItemMarker, new_row)
                  THEN UNCHANGED <<PlaylistItemMarker, MergeMapping_PlaylistItemMarker,
                                   marker_id_map, mk_from>>
                  ELSE /\ PlaylistItemMarker' = PlaylistItemMarker \cup {new_row}
                       /\ marker_id_map' = (key :> new_id) @@ marker_id_map
                       /\ MergeMapping_PlaylistItemMarker' =
                             MergeMapping_PlaylistItemMarker \cup
                                 {[SourceDb |-> mk_db, OldMarkerId |-> row.PlaylistItemMarkerId,
                                   NewMarkerId |-> new_id]}
                       /\ mk_from' = mk_from \cup
                             {[db |-> mk_db, old |-> row.PlaylistItemMarkerId, new |-> new_id,
                               by |-> "merge_playlist_item_marker"]}
    /\ UNCHANGED <<srcPlaylistItemMarker, mk_item_id_map, mk_unique, mk_pc, mk_db>>
    /\ UNCHANGED notMk

\* End of the rows of file1_db: the rows of file2_db.
MkNextSource ==
    /\ mk_pc = "loop" /\ mk_i > Len(srcPlaylistItemMarker[mk_db]) /\ mk_db = 1
    /\ mk_db' = 2
    /\ mk_i' = 1
    /\ UNCHANGED <<srcPlaylistItemMarker, PlaylistItemMarker, MergeMapping_PlaylistItemMarker,
                   marker_id_map, max_marker_id, mk_item_id_map, mk_unique, mk_pc, mk_from>>
    /\ UNCHANGED notMk

\* End of the rows of file2_db: return marker_id_map.
MkReturn ==
    /\ mk_pc = "loop" /\ mk_i > Len(srcPlaylistItemMarker[mk_db]) /\ mk_db = 2
    /\ mk_pc' = "done"
    /\ UNCHANGED <<srcPlaylistItemMarker, PlaylistItemMarker, MergeMapping_PlaylistItemMarker,
                   marker_id_map, max_marker_id, mk_item_id_map, mk_unique, mk_db, mk_i,
                   mk_from>>
    /\ UNCHANGED notMk

InitMarker ==
    /\ IdlePlaylist
    /\ IdleMergeData
    /\ IdleBlockRange
    /\ IdleOther
    /\ location_id_map = EmptyMap
    /\ srcLocation = [db \in Sources |-> <<>>]
    /\ Location = {}
    /\ MergeMapping_Location = {}
    /\ current_max_id = 0
    /\ loc_pc = "idle"
    /\ loc_i = 1
    /\ loc_run = 0
    /\ loc_first_map = EmptyMap
    /\ loc_inserted = 0
    /\ IdleUserMark
    /\ IdleNote
    /\ IdleBookmark
    /\ IdleTag
    /\ srcPlaylistItemMarker \in [Sources -> SrcMarkerTables]
    /\ PlaylistItemMarker = {}
    /\ MergeMapping_PlaylistItemMarker = {}
    /\ marker_id_map = EmptyMap
    /\ max_marker_id = 0
    /\ mk_item_id_map \in MkItemIdMaps
    /\ mk_unique \in BOOLEAN
    /\ mk_pc = "idle"
    /\ mk_db = 1
    /\ mk_i = 1
    /\ mk_from = {}

NextMarker ==
    \/ MkOtherTables
    \/ MkEnter
    \/ MkRow
    \/ MkNextSource
    \/ MkReturn

SpecMarker == InitMarker /\ [][NextMarker]_vars

\* ===================================================================== claims
\* ------------------------------------------------------- Location claims
\* C1: a Location tuple present identically in both sources ends, when
\* merge_location_from_sources returns, as exactly one merged row, and both
\* sources' (source, old id) keys map to that row's id.
C1_IdenticalTupleOneRow ==
    loc_pc = "done" =>
        \A i \in 1..Len(srcLocation[1]), j \in 1..Len(srcLocation[2]) :
            LET r1 == srcLocation[1][i]
                r2 == srcLocation[2][j]
                rows == {r \in Location : LocTuple(r) = LocTuple(r1)}
            IN LocTuple(r1) = LocTuple(r2) =>
                  /\ Cardinality(rows) = 1
                  /\ <<1, r1.LocationId>> \in DOMAIN location_id_map
                  /\ <<2, r2.LocationId>> \in DOMAIN location_id_map
                  /\ \A r \in rows :
                        /\ location_id_map[<<1, r1.LocationId>>] = r.LocationId
                        /\ location_id_map[<<2, r2.LocationId>>] = r.LocationId

\* C2: when merge_location_from_sources returns, no two merged Location rows
\* carry the same descriptive tuple, a NULL counting as equal to a NULL in
\* every column.
C2_NoDuplicateTuples ==
    loc_pc = "done" =>
        \A r1, r2 \in Location : LocTuple(r1) = LocTuple(r2) => r1 = r2

\* C3: a second (or later) invocation of merge_location_from_sources over the
\* same sources and the same merged database returns the mapping the first
\* invocation returned and inserts no Location row.
C3_SecondRunIdempotent ==
    (loc_pc = "done" /\ loc_run >= 2) =>
        /\ location_id_map = loc_first_map
        /\ loc_inserted = 0

\* A second invocation has returned over sources that both hold rows, one of
\* them a row the content lookup cannot find again (Type is NULL).
C3_Witness ==
    /\ loc_pc = "done" /\ loc_run = 2
    /\ \A db \in Sources : \E k \in DOMAIN location_id_map : k[1] = db
    /\ \E r \in Location : r.Type = NULL

\* ------------------------------------------------------- UserMark claims
\* C10: whenever merge_usermark_from_sources met a source UserMark whose GUID
\* the merged table already held with another (color, mapped location, style,
\* version), the merged table holds two distinct rows with two distinct GUIDs,
\* the source row's key maps to the new row, which holds the source's values,
\* and another key maps to the row that held the GUID.
C10_ConflictSplit ==
    \A s \in um_split :
        \E x, y \in UserMark :
            /\ x.UserMarkId = s.existing
            /\ y.UserMarkId = s.new
            /\ x # y
            /\ x.UserMarkGuid = s.guid
            /\ y.UserMarkGuid # x.UserMarkGuid
            /\ LET r == srcUserMark[s.db][s.old]
               IN <<y.ColorIndex, y.LocationId, y.StyleIndex, y.Version>> =
                  <<r.ColorIndex, UMNewLoc(s.db, r.LocationId), r.StyleIndex, r.Version>>
            /\ <<s.db, s.old>> \in DOMAIN um_mapping
            /\ um_mapping[<<s.db, s.old>>] = s.new
            /\ \E k \in DOMAIN um_mapping : k # <<s.db, s.old>> /\ um_mapping[k] = s.existing

\* The merger has returned after a conflict split between the two sources.
C10_Witness ==
    /\ um_pc = "done"
    /\ \E s \in um_split :
          /\ s.db = 2
          /\ <<1, 1>> \in DOMAIN um_mapping
          /\ um_mapping[<<1, 1>>] = s.existing

\* ----------------------------------------------------------- Note claims
\* A GUID that uuid4 generated during the run.
FreshGuid(g) == \E n \in 1..uuid_n : g = Uuid4(n)

\* C6: at every point of merge_usermark_from_sources followed by merge_notes,
\* no two merged UserMark rows carry the same UserMarkGuid and no two merged
\* Note rows carry the same Guid (a row whose Guid is NULL carries none).
C6_GuidUnique ==
    /\ \A r1, r2 \in UserMark : r1.UserMarkGuid = r2.UserMarkGuid => r1 = r2
    /\ \A r1, r2 \in Note : SqlEq(r1.Guid, r2.Guid) => r1 = r2

\* Both mergers have returned, and each met a GUID collision it resolved with
\* a generated GUID.
C6_Witness ==
    /\ note_pc = "done"
    /\ um_split # {}
    /\ \E r1, r2 \in Note : r1.Guid = NoteBase.Guid /\ FreshGuid(r2.Guid)

\* The source notes that only entries with choice = ignore name.
NoteIgnoredOnly == note_ignored \ DOMAIN note_named

\* C7 (notes): when merge_notes returns, a note that a choice entry with
\* choice = ignore names (and no other entry names) has no key in the returned
\* mapping, and every merged Note row is the row of a key that is not ignored.
C7_IgnoredNeverAppears ==
    note_pc = "done" =>
        /\ \A k \in NoteIgnoredOnly : k \notin DOMAIN note_mapping
        /\ \A r \in Note :
              \E k \in DOMAIN note_mapping \ NoteIgnoredOnly : note_mapping[k] = r.NoteId

\* The case C8 is about: an entry with choice = both names a note of each
\* source, the two share a GUID, differ in Title or Content, and their
\* LocationIds map.
C8_Case(b) ==
    /\ NoteInSource(1, b.file1) /\ NoteInSource(2, b.file2)
    /\ LET n1 == NoteOfSource(1, b.file1)
           n2 == NoteOfSource(2, b.file2)
       IN /\ SqlEq(n1.Guid, n2.Guid)
          /\ <<n1.Title, n1.Content>> # <<n2.Title, n2.Content>>
          /\ NoteNewLoc(1, n1.LocationId) # NULL
          /\ NoteNewLoc(2, n2.LocationId) # NULL

\* What C8 promises for the entry: two merged rows, one with the original
\* GUID and one with a generated GUID, each with its source's Title and
\* Content, each source's key mapped to its own row.
C8_TwoRows(b) ==
    LET n1 == NoteOfSource(1, b.file1)
        n2 == NoteOfSource(2, b.file2)
    IN /\ <<1, b.file1>> \in DOMAIN note_mapping
       /\ <<2, b.file2>> \in DOMAIN note_mapping
       /\ \E r1, r2 \in Note :
             /\ r1.NoteId = note_mapping[<<1, b.file1>>]
             /\ r2.NoteId = note_mapping[<<2, b.file2>>]
             /\ r1.NoteId # r2.NoteId
             /\ \/ r1.Guid = n1.Guid /\ FreshGuid(r2.Guid)
                \/ r2.Guid = n2.Guid /\ FreshGuid(r1.Guid)
             /\ <<r1.Title, r1.Content>> = <<n1.Title, n1.Content>>
             /\ <<r2.Title, r2.Content>> = <<n2.Title, n2.Content>>

\* C8 as stated: every entry in the case ends with the two rows.
C8_BothSameGuidTwoRows ==
    note_pc = "done" => \A b \in note_both : C8_Case(b) => C8_TwoRows(b)

\* The entry carries no edit of file1's note, no other entry with a choice
\* other than ignore names either note, and no other source note carries the
\* GUID.
C8_Alone(b) ==
    /\ ~b.edited
    /\ note_named[<<1, b.file1>>] = 1
    /\ note_named[<<2, b.file2>>] = 1
    /\ \A db \in Sources : \A i \in 1..Len(srcNote[db]) :
          SqlEq(srcNote[db][i].Guid, NoteOfSource(1, b.file1).Guid) =>
              <<db, srcNote[db][i].NoteId>> \in {<<1, b.file1>>, <<2, b.file2>>}

\* C8, amended: an entry in the case that carries no edit of file1's note,
\* whose notes no other entry names and whose GUID no other source note
\* carries, ends with the two rows.
C8_BothSameGuidTwoRows_Amended ==
    note_pc = "done" =>
        \A b \in note_both : (C8_Case(b) /\ C8_Alone(b)) => C8_TwoRows(b)

\* merge_notes has returned after such an entry.
C8_Witness ==
    /\ note_pc = "done"
    /\ \E b \in note_both : C8_Case(b) /\ C8_Alone(b) /\ C8_TwoRows(b)

\* ------------------------------------------------------- Bookmark claims
\* C4: in every state of the merged database, after each insert of
\* merge_bookmarks and after each update of update_location_references, no
\* two Bookmark rows have the same (PublicationLocationId, Slot).
C4_SlotUnique ==
    \A r1, r2 \in Bookmark :
        (r1.PublicationLocationId = r2.PublicationLocationId /\ r1.Slot = r2.Slot) => r1 = r2

\* Both functions have returned; an insert moved past an occupied slot and an
\* update gave a row another PublicationLocationId than merge_bookmarks did.
C4_Witness ==
    /\ bm_pc = "done"
    /\ bm_probed
    /\ \E k \in DOMAIN bm_mapping : \E r \in Bookmark :
          /\ r.BookmarkId = bm_mapping[k]
          /\ r.PublicationLocationId #
                BmNewLoc(k[1], BmOfSource(k[1], k[2]).PublicationLocationId)

\* The case C9 is about: the entry's two bookmarks have the same mapped
\* PublicationLocationId and the same Slot, and their locations exist.
C9_Case(b) ==
    LET b1 == BmOfSource(1, b.file1)
        b2 == BmOfSource(2, b.file2)
    IN /\ BmNewLoc(1, b1.PublicationLocationId) = BmNewLoc(2, b2.PublicationLocationId)
       /\ b1.Slot = b2.Slot
       /\ BmLocationsExist(BmNewLoc(1, b1.LocationId), BmNewLoc(1, b1.PublicationLocationId))
       /\ BmLocationsExist(BmNewLoc(2, b2.LocationId), BmNewLoc(2, b2.PublicationLocationId))

\* C9: when merge_bookmarks returns, an entry with choice = both in that case
\* has a merged row per source: both keys are in the mapping, they map to two
\* rows at the mapped PublicationLocationId, one of them at a later slot than
\* the original one.
C9_BothInsertsEach ==
    bm_pc = "merged" =>
        \A b \in bm_both :
            C9_Case(b) =>
                /\ <<1, b.file1>> \in DOMAIN bm_mapping
                /\ <<2, b.file2>> \in DOMAIN bm_mapping
                /\ \E r1, r2 \in Bookmark :
                      /\ r1.BookmarkId = bm_mapping[<<1, b.file1>>]
                      /\ r2.BookmarkId = bm_mapping[<<2, b.file2>>]
                      /\ r1.BookmarkId # r2.BookmarkId
                      /\ r1.PublicationLocationId = r2.PublicationLocationId
                      /\ r1.Slot >= BmOfSource(1, b.file1).Slot
                      /\ r2.Slot >= BmOfSource(2, b.file2).Slot
                      /\ r1.Slot # r2.Slot

\* ----------------------------------------------------------- TagMap claims
\* The targets a source TagMap row resolves to.
C5_Resolved(db, r) ==
    TMTargets(TMNewNote(db, r.NoteId), TMNewLoc(db, r.LocationId), TMNewItem(db, r.PlaylistItemId))

\* C5: at every point of the TagMap pass of merge_tags_and_tagmap and of
\* apply_selected_tags, every merged TagMap row has exactly one of NoteId,
\* LocationId, PlaylistItemId non-null, and a source TagMap row that resolves
\* to no target or to two or more has no merged row.
C5_ExactlyOneTarget ==
    /\ \A r \in TagMap : TMTargets(r.NoteId, r.LocationId, r.PlaylistItemId) = 1
    /\ \A db \in Sources : \A i \in 1..Len(srcTagMap[db]) :
          C5_Resolved(db, srcTagMap[db][i]) # 1 =>
              /\ <<db, srcTagMap[db][i].TagMapId>> \notin DOMAIN tagmap_id_map
              /\ \A m \in MergeMapping_TagMap :
                    ~(m.SourceDb = db /\ m.OldTagMapId = srcTagMap[db][i].TagMapId)

\* Both functions have returned: the TagMap pass met a row with two targets
\* and inserted another, and apply_selected_tags inserted a row.
C5_Witness ==
    /\ tag_pc = "done"
    /\ \E db \in Sources : \E i \in 1..Len(srcTagMap[db]) : C5_Resolved(db, srcTagMap[db][i]) = 2
    /\ tagmap_id_map # EmptyMap
    /\ \E r \in TagMap : r.TagMapId \notin {tagmap_id_map[k] : k \in DOMAIN tagmap_id_map}
    /\ \E r \in TagMap : r.TagMapId \in {tagmap_id_map[k] : k \in DOMAIN tagmap_id_map}

\* ------------------------------------------------------- Playlist claims
\* C11: once merge_data has finished after merge_playlists ran, every merged
\* PlaylistItem id appears in PlaylistItemLocationMap or in
\* PlaylistItemIndependentMediaMap.
C11_NoOrphanItems ==
    pl_pc = "done" =>
        \A p \in PlaylistItem :
            p.PlaylistItemId \in PlMappedItems(PlaylistItemLocationMap,
                                               PlaylistItemIndependentMediaMap)

\* ----------------------------------------------------- merge_data claims
\* C12: a /merge request whose sources do not both hold Bookmark, Location,
\* UserMark and Note ends with the schema-incompatibility error, and no merger
\* has written when it ends.
C12_SchemaCheckedFirst ==
    (md_pc = "idle" /\ md_run > 0 /\ \E db \in Sources : ~verify_schema(db)) =>
        /\ md_response = [code |-> 400, error |-> "Schema incompatible"]
        /\ md_ran = {}

\* The running or last /merge request has ended with the 200 response.
MdSucceeded == md_pc = "idle" /\ md_response.code = 200

\* C13: when PRAGMA quick_check in merge_data, or the check that ends
\* merge_playlists, reports anything but ok, the request writes no output file
\* and does not end with the 200 response.
C13_CorruptionAborts ==
    (md_outcomes.quick_check \notin {"none", "ok"} \/ md_outcomes.integrity \notin {"none", "ok"}) =>
        /\ out_file.run # md_run
        /\ md_pc = "idle" => md_response.code # 200

\* C14: the output file of a /merge request that ended with the 200 response
\* holds no table named MergeMapping_*.
C14_NoMergeMappingInOutput ==
    MdSucceeded =>
        /\ out_file.exists /\ out_file.run = md_run
        /\ \A t \in out_file.tables : ~LowerLikeMergeMapping(t)

\* A request succeeded on a source file that itself carried a mapping table,
\* after every merger had created its own.
C14_Witness ==
    /\ MdSucceeded
    /\ out_file.run = md_run
    /\ "mergemapping_old" \in md_src_tables[1] \cup md_src_tables[2]
    /\ {"Location", "UserMark", "Bookmark", "Tag", "Playlists"} \subseteq md_ran

\* C15: the output file of a /merge request that ended with the 200 response
\* holds every table of the input schema, mapping tables apart, and
\* PlaylistItemMediaMap.
C15_OutputHasInputSchema ==
    MdSucceeded =>
        /\ MergeMappingDropped(md_src_tables[1]) \subseteq out_file.tables
        /\ "PlaylistItemMediaMap" \in out_file.tables

\* C16: no download endpoint sends the output file while the marker file
\* merge_in_progress exists, nor a file that a failed merge left half written.
C16_NoSendDuringMerge ==
    dl_last.endpoint # "none" => ~dl_last.in_progress /\ dl_last.whole

\* C18: when merge_blockrange_from_two_sources meets an integrity error, a
\* failed source read or a failed commit, merge_data has ended with the
\* BlockRange error response, no later merger has run and the request has
\* written no output file.
C18_BlockRangeFatal ==
    md_outcomes.blockrange \notin {"none", "ok"} =>
        /\ md_pc = "idle"
        /\ md_response = [code |-> 500, error |-> "BlockRange merge failed"]
        /\ md_ran \cap {"Note", "Tag", "Other", "Playlists", "InputField"} = {}
        /\ out_file.run # md_run

\* The second request met a failed commit in the BlockRange merger, the first
\* one having left its output file.
C18_Witness ==
    /\ md_outcomes.blockrange = "commit failed"
    /\ md_pc = "idle"
    /\ md_run = 2
    /\ out_file.exists /\ out_file.run = 1
    /\ {"Location", "UserMark", "Bookmark", "BlockRange"} \subseteq md_ran

\* ---------------------------------------------- apply_selected_tags claims
\* The TagIds the selected old tag ids of an application resolve to.
AppliedTagIds(a) ==
    {tag_id_map[<<a.db, a.tags[i]>>] :
        i \in {j \in 1..Len(a.tags) : <<a.db, a.tags[j]>> \in DOMAIN tag_id_map}}

\* The selected old tag ids of an application that the Tag mapping resolves.
AppliedOldIds(a) ==
    {a.tags[i] : i \in {j \in 1..Len(a.tags) : <<a.db, a.tags[j]>> \in DOMAIN tag_id_map}}

\* The TagMap rows of the note are one row per resolved selected old tag id, and no
\* other TagMap row of the same TagId has the Position of one of them.
AppliedExactly(a) ==
    LET rows == {r \in TagMap : r.NoteId = a.note}
    IN /\ {r.TagId : r \in rows} = AppliedTagIds(a)
       /\ Cardinality(rows) = Cardinality(AppliedOldIds(a))
       /\ \A r \in rows, x \in TagMap :
              (x # r /\ x.TagId = r.TagId) => x.Position # r.Position

NoRepeat(tags) == \A i, j \in 1..Len(tags) : tags[i] = tags[j] => i = j

\* No later application reaches the same merged note.
LastApplied(i) ==
    \A j \in DOMAIN tag_applied : j > i => tag_applied[j].note # tag_applied[i].note

C19_SplitKeyedByNewGuid ==
    um_pc = "done" =>
        \A s \in um_split :
            \E y \in UserMark :
                /\ y.UserMarkId = s.new
                /\ y.UserMarkGuid \in DOMAIN um_guid_mapping
                /\ um_guid_mapping[y.UserMarkGuid] = s.new
                /\ um_guid_mapping[s.guid] = s.existing

\* C20: when merge_blockrange_from_two_sources has returned, every source BlockRange
\* row it merged carries the merged UserMarkId that merge_usermark_from_sources
\* mapped from the row's own (source, old UserMarkId), conflict splits included.
C20_BlockRangeFollowsMapping ==
    br_pc = "done" =>
        \A m \in br_merged :
            /\ <<m.db, m.old>> \in DOMAIN um_mapping
            /\ um_mapping[<<m.db, m.old>>] = m.new

\* ------------------------------------------------ merge_notes, later claims
\* C21: when merge_notes has returned, a source note that an entry with choice =
\* file1 or file2 named on the side it did not choose, and that no entry was
\* resolved to, has no entry in note_mapping.
C21_UnchosenNotIncluded ==
    note_pc = "done" =>
        \A k \in note_unchosen \ note_picked : k \notin DOMAIN note_mapping

\* C23: no row of the merged Note table has a NULL Guid, so a source note without
\* GUID that merge_notes inserted got a synthesized one.
C23_NullGuidSynthesized ==
    \A x \in Note : x.Guid # NULL

\* ------------------------------------------- merge_bookmarks, later claims
\* The LocationId and the PublicationLocationId of source bookmark k both have a
\* row in merged Location after remapping.
BmBothResolve(k) ==
    LET b == BmOfSource(k[1], k[2])
    IN /\ \E r \in Location : r.LocationId = BmNewLoc(k[1], b.LocationId)
       /\ \E r \in Location : r.LocationId = BmNewLoc(k[1], b.PublicationLocationId)

\* C22: when merge_bookmarks has returned, every bookmark an entry chose whose two
\* location references both have a merged Location row is in the returned
\* mapping, inserted or mapped to an existing row.
C22_ResolvedBookmarkMerged ==
    bm_pc = "merged" =>
        \A k \in bm_picked : BmBothResolve(k) => k \in DOMAIN bm_mapping

\* ------------------------------- merge_tags_and_tagmap called a second time
\* C24: the second call of merge_tags_and_tagmap returns without raising, and it
\* inserts no TagMap row and no Tag row for a source row that the first call
\* had merged.
C24_SecondCallIdempotent ==
    tag_pc = "done2" =>
        /\ ~tag_raised
        /\ Tag = tag_saved.Tag
        /\ \A k \in DOMAIN tagmap_id_map :
              ~\E m \in tag_saved.MergeMapping_TagMap :
                  m.SourceDb = k[1] /\ m.OldTagMapId = k[2]

\* The TagMap rows of merged note n in the table TM.
TagMapOfNote(TM, n) == {r \in TM : r.NoteId = n}

\* C27: when the second call of merge_tags_and_tagmap has ended, every merged
\* note apply_selected_tags gave tags to has the TagMap rows it had when that
\* call began, which are the rows apply_selected_tags left.
C27_AppliedTagsKept ==
    tag_pc = "done2" =>
        \A i \in DOMAIN tag_applied :
            TagMapOfNote(TagMap, tag_applied[i].note)
                = TagMapOfNote(tag_saved.TagMap, tag_applied[i].note)

\* ------------------------------------------------ merge_other_tables claims
\* C25: no two rows of the merged table are equal on every column other than
\* the key, NULL columns included, and when a second call of merge_other_tables
\* over the same sources has returned the table is as the first call left it.
C25_FullRowDedup ==
    /\ \A x \in Other : \A y \in Other : (x.A = y.A /\ x.B = y.B) => x = y
    /\ (ot_pc = "done" /\ ot_run = 2) => Other = ot_first

\* C26: the highlight pre-scan at the start of merge_data never raises, also
\* when both sources hold a UserMark of one GUID with different
\* (color, location, style, version): no request ends in NameError.
C26_PreScanCompletes ==
    md_response.error # "NameError"

\* The key (source, old LocationId) of the source bookmark a mapping key names.
BmSourceLocKey(k) == <<k[1], BmOfSource(k[1], k[2]).LocationId>>

\* C28: when merge_data has run update_location_references, every merged
\* Bookmark still has the LocationId that location_id_map gives for the
\* bookmark's own (source, old LocationId): the residual update does not
\* redirect an id that was already remapped.
C28_BookmarkLocationMapped ==
    bm_pc = "done" =>
        \A k \in DOMAIN bm_mapping :
            BmSourceLocKey(k) \in DOMAIN location_id_map =>
                \A r \in Bookmark :
                    r.BookmarkId = bm_mapping[k] =>
                        r.LocationId = location_id_map[BmSourceLocKey(k)]

\* The merged ids written for a source row of PlaylistItemMarker.
MkRowsFrom(db, old) == {g.new : g \in {x \in mk_from : x.db = db /\ x.old = old}}

\* C29: merge_other_tables adds no PlaylistItemMarker row of its own, a source
\* row contributes at most one merged row, and every merged marker carries the
\* PlaylistItemId that item_id_map gives for a source row it came from.
C29_MarkersMappedOnce ==
    mk_pc = "done" =>
        /\ \A g \in mk_from : g.by # "merge_other_tables"
        /\ \A db \in Sources : \A i \in 1..Len(srcPlaylistItemMarker[db]) :
               Cardinality(MkRowsFrom(db, srcPlaylistItemMarker[db][i].PlaylistItemMarkerId)) <= 1
        /\ \A r \in PlaylistItemMarker :
               \E g \in mk_from :
                   /\ g.new = r.PlaylistItemMarkerId
                   /\ <<g.db, srcPlaylistItemMarker[g.db][g.old].PlaylistItemId>>
                          \in DOMAIN mk_item_id_map
                   /\ r.PlaylistItemId =
                          mk_item_id_map[<<g.db, srcPlaylistItemMarker[g.db][g.old].PlaylistItemId>>]

\* C30: whenever a /merge request has ended, by a response of merge_data or
\* by an exception, the marker file merge_in_progress is gone, so that
\* /download/<filename> answers from the output file again.
C30_MarkerRemoved ==
    (md_pc = "idle" /\ md_response.code # 0) => ~merge_in_progress

====
